---- MODULE Spec2Model ----
(***************************************************************************)
(* Model of the C++ email-prediction inference engine: string              *)
(* normalisation, name decomposition, investor flags, feature matrix,      *)
(* template predictors (LightGBM / CatBoost), domain resolver with its     *)
(* fuzzy-match cache, local-part rendering and the prediction engine.      *)
(*                                                                         *)
(* Strings are sequences of characters.  An ASCII character is the         *)
(* one-character string; a non-ASCII code point (a multi-byte UTF-8        *)
(* sequence in the program) is written by its entity name ("uuml" is       *)
(* U+00FC, "Uuml" is U+00DC, ...).  std::optional<T> is a sequence of      *)
(* length 0 (nullopt) or 1.                                                *)
(***************************************************************************)
EXTENDS Integers, Sequences, FiniteSets, TLC

----------------------------------------------------------------------------
(* Generic helpers *)

Min(a, b) == IF a <= b THEN a ELSE b

Range(s) == { s[i] : i \in DOMAIN s }

RECURSIVE Flatten(_)
Flatten(ss) == IF ss = <<>> THEN <<>> ELSE Head(ss) \o Flatten(Tail(ss))

----------------------------------------------------------------------------
(* Characters *)

UpperSeq == <<"A","B","C","D","E","F","G","H","I","J","K","L","M","N","O","P","Q","R","S","T","U","V","W","X","Y","Z">>

LowerSeq == <<"a","b","c","d","e","f","g","h","i","j","k","l","m","n","o","p","q","r","s","t","u","v","w","x","y","z">>

\* Code points outside ASCII that the model's inputs use.
NonAsciiChars == {"uuml", "Uuml", "ouml", "auml", "szlig", "oslash", "aring", "eacute"}

\* " \t\n\r"
WHITESPACE == {" ", "\t", "\n", "\r"}

\* "\"'<>"
PASTE_NOISE == {"\"", "'", "<", ">"}

\* ".,;:!?}]"
TrailingPunctuation == {".", ",", ";", ":", "!", "?", "}", "]"}

\* Honorifics and suffixes dropped from the front and back of a name.
REMOVABLE_TOKENS ==
  {
    <<"j","r">>, <<"s","r">>, <<"i","i">>, <<"i","i","i">>, <<"i","v">>,
    <<"v">>, <<"p","h","d">>, <<"m","d">>, <<"e","s","q">>, <<"d","r">>,
    <<"m","r">>, <<"m","r","s">>, <<"m","s">>, <<"p","r","o","f">>, <<"s","i","r">> }

\* Particles that start a surname.
SURNAME_PARTICLES ==
  {
    <<"s","a","n","t","a">>, <<"s","a","n">>, <<"s","t">>, <<"v","o","n">>,
    <<"v","a","n">>, <<"d","e">>, <<"d","e","r">>, <<"d","e","l","l","o">>,
    <<"v","a","n","d","e","r">>, <<"d","e","l">>, <<"d","e"," ","l","a">>, <<"v","o","m">>,
    <<"d","e","l","a">>, <<"d","e"," ","l","o","s">>, <<"d","o","s">>, <<"l","a">>,
    <<"l","o","s">>, <<"l","e">>, <<"d","u">>, <<"d","i">>,
    <<"d","a">>, <<"m","a","c">>, <<"a","l">>, <<"a","b","u">>,
    <<"b","i","n">>, <<"i","b","n">>, <<"d","e","l","l","a">> }

\* Formal names (keys) of the nickname table.
NICKNAME_MAPPINGS ==
  {
    <<"a","l","e","x","a","n","d","e","r">>, <<"a","n","d","r","e","w">>, <<"a","n","n","e">>,
    <<"a","r","t","h","u","r">>, <<"b","e","n","j","a","m","i","n">>, <<"w","i","l","l","i","a","m">>,
    <<"r","o","b","e","r","t">>, <<"c","a","t","h","e","r","i","n","e">>, <<"c","h","a","r","l","e","s">>,
    <<"d","a","n","i","e","l">>, <<"d","a","v","i","d">>, <<"d","o","n","a","l","d">>,
    <<"e","d","w","a","r","d">>, <<"e","l","i","z","a","b","e","t","h">>, <<"e","l","e","a","n","o","r">>,
    <<"f","r","a","n","c","i","s">>, <<"f","r","e","d","e","r","i","c","k">>, <<"g","e","r","a","l","d">>,
    <<"g","r","e","g","o","r","y">>, <<"h","a","r","o","l","d">>, <<"j","o","h","n">>,
    <<"j","a","c","o","b">>, <<"j","a","n","e","t">>, <<"j","e","f","f","r","e","y">>,
    <<"j","e","n","n","i","f","e","r">>, <<"j","a","m","e","s">>, <<"j","o","s","e","p","h">>,
    <<"j","o","n","a","t","h","a","n">>, <<"j","o","s","h","u","a">>, <<"j","o","y">>,
    <<"j","u","d","i","t","h">>, <<"k","a","t","h","e","r","i","n","e">>, <<"k","e","n","n","e","t","h">>,
    <<"l","a","w","r","e","n","c","e">>, <<"l","e","w","i","s">>, <<"m","a","r","g","a","r","e","t">>,
    <<"m","a","r","t","i","n">>, <<"m","a","t","t","h","e","w">>, <<"m","e","g","a","n">>,
    <<"m","e","l","v","i","n">>, <<"m","i","c","h","a","e","l">>, <<"n","i","c","h","o","l","a","s">>,
    <<"p","a","t","r","i","c","k">>, <<"p","e","t","e","r">>, <<"p","h","i","l","i","p">>,
    <<"r","i","c","h","a","r","d">>, <<"r","o","n","a","l","d">>, <<"s","a","m","u","e","l">>,
    <<"s","t","e","v","e","n">>, <<"s","u","s","a","n">>, <<"t","h","e","o","d","o","r","e">>,
    <<"t","e","r","e","n","c","e">>, <<"t","i","m","o","t","h","y">>, <<"t","h","o","m","a","s">>,
    <<"a","n","t","h","o","n","y">>, <<"v","i","c","t","o","r">>, <<"z","a","c","h","a","r","y">>,
    <<"n","a","s","t","y","a">>, <<"d","o","u","g","l","a","s">>, <<"m","i","t","c","h","e","l","l">>,
    <<"w","e","s","l","e","y">>, <<"p","a","t","r","i","c","i","a">>, <<"r","a","j","i","v">> }

\* {from, to} pairs of the German transliteration table.
GERMAN_ASCII_MAPPINGS ==
  << [from |-> "uuml",   to |-> <<"u","e">>],
     [from |-> "ouml",   to |-> <<"o","e">>],
     [from |-> "auml",   to |-> <<"a","e">>],
     [from |-> "szlig",  to |-> <<"s","s">>],
     [from |-> "oslash", to |-> <<"o">>],
     [from |-> "aring",  to |-> <<"a","a">>] >>

----------------------------------------------------------------------------
(* string_normalization *)

\* std::tolower in the "C" locale on one byte; bytes of a multi-byte
\* sequence are >= 128 and pass through unchanged.
LowerOf == [c \in Range(UpperSeq) |->
              LowerSeq[CHOOSE i \in DOMAIN UpperSeq : UpperSeq[i] = c]]

tolower(c) == IF c \in DOMAIN LowerOf THEN LowerOf[c] ELSE c

to_lower(input) == [i \in DOMAIN input |-> tolower(input[i])]

\* Greedy left-to-right replacement; a pattern can only match at a code
\* point boundary, so the scan is per code point.
replace_german_chars(lower_name) ==
  Flatten([i \in DOMAIN lower_name |->
     IF \E k \in DOMAIN GERMAN_ASCII_MAPPINGS :
            GERMAN_ASCII_MAPPINGS[k].from = lower_name[i]
       THEN GERMAN_ASCII_MAPPINGS[
              CHOOSE k \in DOMAIN GERMAN_ASCII_MAPPINGS :
                 GERMAN_ASCII_MAPPINGS[k].from = lower_name[i]].to
       ELSE <<lower_name[i]>>])

strip_to_ascii(input) == SelectSeq(input, LAMBDA c : c \notin NonAsciiChars)

\* Unicode NFKD decomposition of one code point (ICU Normalizer2): accented
\* letters decompose into base letter + combining mark (non-ASCII); eszett
\* and o-slash have no decomposition.
NFKD(c) ==
  CASE c = "uuml"   -> <<"u", "comb_diaeresis">>
    [] c = "Uuml"   -> <<"U", "comb_diaeresis">>
    [] c = "ouml"   -> <<"o", "comb_diaeresis">>
    [] c = "auml"   -> <<"a", "comb_diaeresis">>
    [] c = "aring"  -> <<"a", "comb_ring">>
    [] c = "eacute" -> <<"e", "comb_acute">>
    [] OTHER        -> <<c>>

CombiningMarks == {"comb_diaeresis", "comb_ring", "comb_acute"}

\* A bug: the string comes back as it went in.
nfkd_normalize_unchanged(lower_name) == lower_name

\* The error branches (ICU cannot provide or run its NFKD normalizer) are
\* not taken: the normalizer's data ships with the library.
nfkd_normalize(lower_name) ==
  SelectSeq(Flatten([i \in DOMAIN lower_name |-> NFKD(lower_name[i])]),
            LAMBDA c : c \notin NonAsciiChars \cup CombiningMarks)

\* StringViewSplitter::split_all: maximal delimiter-free substrings.
RECURSIVE split_from(_, _, _, _)
split_from(str, delimiter, start, cur) ==
  IF start > Len(str)
    THEN IF cur = <<>> THEN <<>> ELSE <<cur>>
    ELSE IF str[start] = delimiter
      THEN (IF cur = <<>> THEN <<>> ELSE <<cur>>)
             \o split_from(str, delimiter, start + 1, <<>>)
      ELSE split_from(str, delimiter, start + 1, Append(cur, str[start]))

split_all(str, delimiter) == split_from(str, delimiter, 1, <<>>)

split_all_strings(str, delimiter) == split_all(str, delimiter)

----------------------------------------------------------------------------
(* name_decomposer *)

RECURSIVE trim_left(_)
trim_left(str) ==
  IF str # <<>> /\ Head(str) \in WHITESPACE THEN trim_left(Tail(str)) ELSE str

RECURSIVE trim_right(_)
trim_right(str) ==
  IF str # <<>> /\ str[Len(str)] \in WHITESPACE
    THEN trim_right(SubSeq(str, 1, Len(str) - 1)) ELSE str

trim(str) == trim_right(trim_left(str))

RECURSIVE strip_trailing_punctuation(_)
strip_trailing_punctuation(result) ==
  IF result # <<>> /\ result[Len(result)] \in TrailingPunctuation
    THEN strip_trailing_punctuation(SubSeq(result, 1, Len(result) - 1))
    ELSE result

remove_paste_noise(result) == SelectSeq(result, LAMBDA c : c \notin PASTE_NOISE)

\* std::regex_replace(result, std::regex(R"(\s{2,})"), " "): every maximal
\* run of two or more whitespace characters becomes one space; a run of
\* length one is left as it is.
RECURSIVE collapse_from(_, _, _)
collapse_from(str, i, run) ==
  LET flush == IF Len(run) >= 2 THEN <<" ">> ELSE run IN
  IF i > Len(str) THEN flush
  ELSE IF str[i] \in WHITESPACE
    THEN collapse_from(str, i + 1, Append(run, str[i]))
    ELSE flush \o <<str[i]>> \o collapse_from(str, i + 1, <<>>)

collapse_spaces(str) == collapse_from(str, 1, <<>>)

RECURSIVE remove_front(_, _)
remove_front(tokens, removable_tokens) ==
  IF tokens # <<>> /\ Head(tokens) \in removable_tokens
    THEN remove_front(Tail(tokens), removable_tokens) ELSE tokens

RECURSIVE remove_back(_, _)
remove_back(tokens, removable_tokens) ==
  IF tokens # <<>> /\ tokens[Len(tokens)] \in removable_tokens
    THEN remove_back(SubSeq(tokens, 1, Len(tokens) - 1), removable_tokens)
    ELSE tokens

remove_tokens(tokens, removable_tokens) ==
  remove_back(remove_front(tokens, removable_tokens), removable_tokens)

RECURSIVE join(_, _)
join(tokens, sep) ==
  IF tokens = <<>> THEN <<>>
  ELSE IF Len(tokens) = 1 THEN tokens[1]
  ELSE tokens[1] \o <<sep>> \o join(Tail(tokens), sep)

normalize_full_name(raw_input) ==
  LET trimmed == trim(raw_input)
      lowered == to_lower(trimmed)
      translit == replace_german_chars(lowered)
      nfkd == nfkd_normalize(translit)
      nopunct == strip_trailing_punctuation(nfkd)
      nonoise == remove_paste_noise(nopunct)
      collapsed == collapse_spaces(nonoise)
      tokens == remove_tokens(split_all_strings(collapsed, " "), REMOVABLE_TOKENS)
  IN IF raw_input = <<>> \/ trimmed = <<>> THEN <<>> ELSE join(tokens, " ")

\* A bug: particles are not looked for; the final part is the last name.
parse_rest_without_particles(parts, i, acc) ==
  IF Len(parts) < 2 THEN acc
  ELSE [acc EXCEPT !.middle_names = SubSeq(parts, 2, Len(parts) - 1),
                   !.last_names = <<parts[Len(parts)]>>]

\* The loop over parts[1..n-1] of parse_name: the first particle takes
\* itself and every later part into last_names and ends the scan.
RECURSIVE parse_rest(_, _, _)
parse_rest(parts, i, acc) ==
  IF i > Len(parts) THEN acc
  ELSE IF parts[i] \in SURNAME_PARTICLES
    THEN [acc EXCEPT !.last_names = @ \o SubSeq(parts, i, Len(parts))]
  ELSE IF i < Len(parts)
    THEN parse_rest(parts, i + 1, [acc EXCEPT !.middle_names = Append(@, parts[i])])
    ELSE parse_rest(parts, i + 1, [acc EXCEPT !.last_names = Append(@, parts[i])])

parse_name(cleaned_full_name) ==
  LET parts == split_all_strings(cleaned_full_name, " ")
      empty == [first_names |-> <<>>, middle_names |-> <<>>, last_names |-> <<>>]
  IN IF cleaned_full_name = <<>> \/ parts = <<>> THEN empty
     ELSE parse_rest(parts, 2,
            [empty EXCEPT !.first_names =
               IF \E j \in DOMAIN parts[1] : parts[1][j] = "-"
                 THEN split_all(parts[1], "-")
                 ELSE <<parts[1]>>])

\* NameDecomposer(full_name): the constructed object.
NameDecomposer(full_name) == parse_name(normalize_full_name(full_name))

has_middle_name(nd) == nd.middle_names # <<>>
has_multiple_first_names(nd) == Len(nd.first_names) > 1
has_multiple_middle_names(nd) == Len(nd.middle_names) > 1
has_multiple_last_names(nd) == Len(nd.last_names) > 1

----------------------------------------------------------------------------
(* InvestorFeatureExtractor *)

has_german_characters(name_chars) ==
  \E i \in DOMAIN name_chars : replace_german_chars(<<name_chars[i]>>) # <<name_chars[i]>>

\* A bug: the German substitution is applied before the comparison.
would_nfkd_normalize_after_translit(lower_name) ==
  nfkd_normalize(replace_german_chars(lower_name)) # replace_german_chars(lower_name)

would_nfkd_normalize(lower_name) == nfkd_normalize(lower_name) # lower_name

RECURSIVE skip_spaces(_)
skip_spaces(s) == IF s # <<>> /\ Head(s) = " " THEN skip_spaces(Tail(s)) ELSE s

RECURSIVE take_until_space(_)
take_until_space(s) ==
  IF s = <<>> \/ Head(s) = " " THEN <<>> ELSE <<Head(s)>> \o take_until_space(Tail(s))

extract_first_token(lower_name) == take_until_space(skip_spaces(lower_name))

find_nicknames(formal_name) == formal_name \in NICKNAME_MAPPINGS

extract(full_name) ==
  LET lower == to_lower(full_name)
      first_token == extract_first_token(lower)
  IN IF full_name = <<>>
       THEN [has_german_char |-> FALSE, has_nfkd_normalized |-> FALSE,
             has_nickname |-> FALSE]
       ELSE [has_german_char |-> has_german_characters(lower),
             has_nfkd_normalized |-> would_nfkd_normalize(lower),
             has_nickname |-> first_token # <<>> /\ find_nicknames(first_token)]

----------------------------------------------------------------------------
(* data_loaders: template metadata *)

\* std::nullopt and a set optional.
nullopt == <<>>
Some(v) == <<v>>
has_value(o) == o # <<>>
value(o) == o[1]

\* TemplateToken for a name component.
NameToken(group, index, use_initial) ==
  [group |-> group, index |-> index,
   use_original |-> ~use_initial, use_nfkd |-> FALSE, use_translit |-> FALSE,
   use_nickname |-> FALSE, use_surname_particle |-> FALSE,
   use_initial |-> use_initial, separator |-> nullopt]

\* TemplateToken for a separator: the other fields keep their defaults.
SeparatorToken(sep) ==
  [group |-> "Unknown", index |-> 0,
   use_original |-> FALSE, use_nfkd |-> FALSE, use_translit |-> FALSE,
   use_nickname |-> FALSE, use_surname_particle |-> FALSE,
   use_initial |-> FALSE, separator |-> Some(<<sep>>)]

CandidateTemplate(id, token_seq, support, coverage, umid, ufirsts, umids, ulasts) ==
  [template_id |-> id, token_seq |-> token_seq,
   support_count |-> support, coverage_pct |-> coverage,
   in_mined_rules |-> TRUE, max_rule_confidence |-> 1, avg_rule_confidence |-> 1,
   uses_middle_name |-> umid, uses_multiple_firsts |-> ufirsts,
   uses_multiple_middles |-> umids, uses_multiple_lasts |-> ulasts]

\* Standard class, sorted by template_id as load_candidate_templates leaves it:
\*   1: first_original_0 . last_original_0      2: f_0 last_original_0
StdTemplates ==
  << CandidateTemplate(1, <<NameToken("First", 0, FALSE), SeparatorToken("."),
                            NameToken("Last", 0, FALSE)>>, 7, 60, FALSE, FALSE, FALSE, FALSE),
     CandidateTemplate(2, <<NameToken("First", 0, TRUE),
                            NameToken("Last", 0, FALSE)>>, 4, 30, FALSE, FALSE, FALSE, FALSE) >>

\* Complex class, sorted by template_id:
\*   11: first_original_0 m_0 last_original_0   12: first_original_0 _ last_original_1
\*   13: f_0 - first_original_1
ComplexTemplates ==
  << CandidateTemplate(11, <<NameToken("First", 0, FALSE), NameToken("Middle", 0, TRUE),
                             NameToken("Last", 0, FALSE)>>, 3, 5, TRUE, FALSE, FALSE, FALSE),
     CandidateTemplate(12, <<NameToken("First", 0, FALSE), SeparatorToken("_"),
                             NameToken("Last", 1, FALSE)>>, 2, 3, FALSE, FALSE, FALSE, TRUE),
     CandidateTemplate(13, <<NameToken("First", 0, TRUE), SeparatorToken("-"),
                             NameToken("First", 1, FALSE)>>, 1, 2, FALSE, TRUE, FALSE, FALSE) >>

\* Firm names and domains used by the model.
FirmCvc == <<"c","v","c">>
FirmCvcUpper == <<"C","v","c">>
FirmCvx == <<"c","v","x">>
FirmKkr == <<"k","k","r">>
DomainCvc == <<"c","v","c",".","u","k">>
DomainKkr == <<"k","k","r",".","i","o">>
DomainOld == <<"o","l","d",".","u","k">>

\* firm_stats_: firm name -> FirmStats (keys as they are in the blob).
firm_stats_ ==
  [f \in {FirmCvc, FirmCvx} |->
     [num_templates |-> 2, num_investors |-> 4, diversity_ratio |-> 1,
      is_single_template |-> FALSE, is_shared_infra |-> TRUE,
      firm_is_multi_domain |-> FALSE]]

\* firm_usage_map_: firm name -> template_id -> FirmTemplateUsage.
firm_usage_map_ ==
  [f \in {FirmCvc, FirmCvx} |->
     [tid \in {1, 11} |->
        [support_count |-> 2, coverage_pct |-> 1, is_top_template |-> TRUE]]]

----------------------------------------------------------------------------
(* features::builder *)

FEATURES_PER_ROW == 27

BoolToFloat(b) == IF b THEN 1 ELSE 0

\* The 27 emplace_back calls for one template.
feature_row(nd, flags, firm_name, tmpl, firm_stats, firm_template_usage_map) ==
  LET has_firm_stats == firm_name \in DOMAIN firm_stats
      stats == IF has_firm_stats THEN firm_stats[firm_name]
               ELSE [num_templates |-> 0, num_investors |-> 0, diversity_ratio |-> 0,
                     is_single_template |-> FALSE, is_shared_infra |-> FALSE,
                     firm_is_multi_domain |-> FALSE]
      has_usage_map == firm_name \in DOMAIN firm_template_usage_map
      in_firm_templates ==
        has_usage_map /\ tmpl.template_id \in DOMAIN firm_template_usage_map[firm_name]
      usage == IF in_firm_templates
                 THEN firm_template_usage_map[firm_name][tmpl.template_id]
                 ELSE [support_count |-> 0, coverage_pct |-> 0, is_top_template |-> FALSE]
      clash == \/ (tmpl.uses_middle_name /\ has_middle_name(nd))
               \/ (tmpl.uses_multiple_firsts /\ has_multiple_first_names(nd))
               \/ (tmpl.uses_multiple_middles /\ has_multiple_middle_names(nd))
               \/ (tmpl.uses_multiple_lasts /\ has_multiple_last_names(nd))
  IN << BoolToFloat(in_firm_templates),
        BoolToFloat(stats.is_shared_infra),
        BoolToFloat(stats.firm_is_multi_domain),
        BoolToFloat(flags.has_german_char),
        BoolToFloat(flags.has_nfkd_normalized),
        BoolToFloat(flags.has_nickname),
        BoolToFloat(has_multiple_first_names(nd)),
        BoolToFloat(has_middle_name(nd)),
        BoolToFloat(has_multiple_middle_names(nd)),
        BoolToFloat(has_multiple_last_names(nd)),
        tmpl.support_count,
        tmpl.coverage_pct,
        BoolToFloat(tmpl.in_mined_rules),
        tmpl.max_rule_confidence,
        tmpl.avg_rule_confidence,
        BoolToFloat(tmpl.uses_middle_name),
        BoolToFloat(tmpl.uses_multiple_firsts),
        BoolToFloat(tmpl.uses_multiple_middles),
        BoolToFloat(tmpl.uses_multiple_lasts),
        usage.support_count,
        usage.coverage_pct,
        BoolToFloat(usage.is_top_template),
        BoolToFloat(clash),
        stats.num_templates,
        stats.num_investors,
        stats.diversity_ratio,
        BoolToFloat(stats.is_single_template) >>

build_feature_rows(nd, flags, firm_name, templates, firm_stats, firm_template_usage_map) ==
  Flatten([i \in DOMAIN templates |->
     feature_row(nd, flags, firm_name, templates[i], firm_stats, firm_template_usage_map)])

----------------------------------------------------------------------------
(* local_part_resolver *)

get_name_group(nd, group) ==
  CASE group = "First"  -> nd.first_names
    [] group = "Middle" -> nd.middle_names
    [] group = "Last"   -> nd.last_names

\* A bug: a token whose index is out of range is skipped.
RECURSIVE resolve_from_skipping(_, _, _, _)
resolve_from_skipping(nd, token_seq, i, oss) ==
  IF i > Len(token_seq) THEN Some(oss)
  ELSE LET token == token_seq[i] IN
    IF has_value(token.separator)
      THEN resolve_from_skipping(nd, token_seq, i + 1, oss \o value(token.separator))
    ELSE LET group_vec == get_name_group(nd, token.group) IN
      IF token.index >= Len(group_vec)
        THEN resolve_from_skipping(nd, token_seq, i + 1, oss)
      ELSE LET raw == group_vec[token.index + 1] IN
        resolve_from_skipping(nd, token_seq, i + 1,
          oss \o (IF token.use_initial THEN <<tolower(raw[1])>> ELSE to_lower(raw)))

\* Returns std::optional<std::string>.
RECURSIVE resolve_from(_, _, _, _)
resolve_from(nd, token_seq, i, oss) ==
  IF i > Len(token_seq) THEN Some(oss)
  ELSE LET token == token_seq[i] IN
    IF has_value(token.separator)
      THEN resolve_from(nd, token_seq, i + 1, oss \o value(token.separator))
    ELSE LET group_vec == get_name_group(nd, token.group) IN
      IF token.index >= Len(group_vec) THEN nullopt
      ELSE LET raw == group_vec[token.index + 1] IN
        IF token.use_initial
          THEN IF raw = <<>> THEN nullopt
               ELSE resolve_from(nd, token_seq, i + 1,
                                 oss \o to_lower(<<tolower(raw[1])>>))
          ELSE resolve_from(nd, token_seq, i + 1, oss \o to_lower(raw))

resolve_email_local_part(nd, token_seq) == resolve_from(nd, token_seq, 1, <<>>)

----------------------------------------------------------------------------
(* Template predictors *)

\* A bug: the comparator of an ascending sort.
score_less(a, b) == a.score < b.score

\* The comparator handed to std::partial_sort by both backends.
score_greater(a, b) == a.score > b.score

IndexPermutations(n) ==
  { p \in [1..n -> 1..n] : \A i, j \in 1..n : i # j => p[i] # p[j] }

\* std::partial_sort(first, first + middle, last, comp): afterwards the first
\* `middle` elements are the smallest under comp, in sorted order; the order
\* of equivalent elements and of the remaining elements is unspecified, so
\* every arrangement the postcondition allows is an outcome.
partial_sort(results, middle) ==
  { r \in { [i \in DOMAIN results |-> results[p[i]]] : p \in IndexPermutations(Len(results)) } :
      /\ \A i, j \in 1..middle : i < j => ~score_greater(r[j], r[i])
      /\ \A i \in 1..middle : \A j \in (middle + 1)..Len(r) : ~score_greater(r[j], r[i]) }

\* results.resize(top_k) when results.size() > top_k.
resize_top_k(results, top_k) ==
  IF Len(results) > top_k THEN SubSeq(results, 1, top_k) ELSE results

\* The loop that packages one TemplatePrediction per score.
package_results(scores, templates) ==
  [i \in DOMAIN scores |->
     [index |-> i - 1, score |-> scores[i],
      template_id |-> templates[i].template_id, metadata |-> i]]

\* Number of scores the model call yields for a matrix.
num_rows(flat_matrix) == Len(flat_matrix) \div FEATURES_PER_ROW

Returned(preds) == [error |-> "none", predictions |-> preds]
Thrown(what) == [error |-> what, predictions |-> <<>>]

\* LightGBMTemplatePredictor::predict_top_templates; `scores` is what
\* predict_scores returns for the matrix.  The set of possible outcomes.
LightGBM_predict_top_templates(flat_matrix, templates, top_k, scores) ==
  IF flat_matrix = <<>> \/ templates = <<>> THEN { Returned(<<>>) }
  ELSE IF Len(flat_matrix) # Len(templates) * FEATURES_PER_ROW
    THEN { Thrown("invalid_argument") }
  ELSE LET results == package_results(scores, templates)
           sort_size == Min(top_k, Len(results))
       IN { Returned(resize_top_k(r, top_k)) : r \in partial_sort(results, sort_size) }

\* CatBoostTemplatePredictor::predict_top_templates; `scores` is what
\* CalcModelPredictionFlat writes into predictions.
CatBoost_predict_top_templates(flat_matrix, templates, top_k, scores) ==
  IF Len(flat_matrix) # Len(templates) * FEATURES_PER_ROW
    THEN { Thrown("invalid_argument") }
  ELSE LET results == package_results(scores, templates)
       IN { Returned(resize_top_k(r, top_k)) :
              r \in partial_sort(results, Min(top_k, Len(results))) }

predict_top_templates(backend, flat_matrix, templates, top_k, scores) ==
  IF backend = "LightGBM"
    THEN LightGBM_predict_top_templates(flat_matrix, templates, top_k, scores)
    ELSE CatBoost_predict_top_templates(flat_matrix, templates, top_k, scores)

----------------------------------------------------------------------------
(* domain_resolver *)

\* normalize_firm_name: lowercases, keeps spaces and punctuation.
normalize_firm_name(firm_name) == [i \in DOMAIN firm_name |-> tolower(firm_name[i])]

\* Length of the longest common subsequence.
RECURSIVE LCS(_, _)
LCS(a, b) ==
  IF a = <<>> \/ b = <<>> THEN 0
  ELSE IF Head(a) = Head(b) THEN 1 + LCS(Tail(a), Tail(b))
  ELSE LET x == LCS(Tail(a), b)
           y == LCS(a, Tail(b))
       IN IF x >= y THEN x ELSE y

\* A double that is a ratio of two integers, kept exact.
Ratio(n, d) == [num |-> n, den |-> d]
RatioGeq(a, b) == a.num * b.den >= b.num * a.den
\* static_cast<int> of a non-negative double.
RatioToInt(a) == a.num \div a.den

\* rapidfuzz::fuzz::CachedRatio::similarity: the normalised Indel
\* similarity, 100 * (1 - (|a| + |b| - 2 LCS) / (|a| + |b|)).
similarity(query, firm) ==
  IF Len(query) + Len(firm) = 0 THEN Ratio(100, 1)
  ELSE Ratio(200 * LCS(query, firm), Len(query) + Len(firm))

\* A bug: the comparison is strict, so the first of several best keys wins.
RatioGt(a, b) == a.num * b.den > b.num * a.den

\* score >= best_score
score_geq(score, best_score) == RatioGeq(score, best_score)

\* The scan of findBestFirmMatch over the directory in iteration order.
\* best.found is FALSE while best_firm / best_domain are null.
RECURSIVE best_match_scan(_, _, _, _)
best_match_scan(query, firm_to_domain, i, best) ==
  IF i > Len(firm_to_domain) THEN best
  ELSE LET score == similarity(query, firm_to_domain[i].firm) IN
    IF score_geq(score, best.match_score)
      THEN best_match_scan(query, firm_to_domain, i + 1,
             [found |-> TRUE, domain |-> firm_to_domain[i].domain,
              canonical_firm |-> firm_to_domain[i].firm, match_score |-> score])
      ELSE best_match_scan(query, firm_to_domain, i + 1, best)

findBestFirmMatch(query, firm_to_domain) ==
  best_match_scan(query, firm_to_domain, 1,
    [found |-> FALSE, domain |-> <<>>, canonical_firm |-> <<>>,
     match_score |-> Ratio(0, 1)])

directory_contains(firm_to_domain, key) ==
  \E i \in DOMAIN firm_to_domain : firm_to_domain[i].firm = key

directory_at(firm_to_domain, key) ==
  firm_to_domain[CHOOSE i \in DOMAIN firm_to_domain : firm_to_domain[i].firm = key].domain

\* The std::tuple<std::string, std::string, int> resolve_domain returns.
ResolveTuple(domain, matched_firm, score) ==
  [domain |-> domain, matched_firm |-> matched_firm, score |-> score]

\* A bug: the entry is stored with the query as its canonical firm.
cache_insert_query_as_firm(cache, key, entry) ==
  [k \in DOMAIN cache \cup {key} |->
     IF k = key THEN [entry EXCEPT !.canonical_firm = key] ELSE cache[k]]

\* A bug: the insert drops every other entry.
cache_insert_alone(cache, key, entry) == [k \in {key} |-> entry]

\* firm_cache_[key] = {domain, CacheEntry{canonical_firm, match_score}}
cache_insert(cache, key, entry) ==
  [k \in DOMAIN cache \cup {key} |-> IF k = key THEN entry ELSE cache[k]]

\* A bug: the fuzzy cache is looked up before the directory.
resolve_domain_cache_first(raw_firm_name, firm_to_domain, cache) ==
  LET normalized_name == normalize_firm_name(raw_firm_name) IN
  IF normalized_name \in DOMAIN cache
    THEN [status |-> "ok", path |-> "cache", cache |-> cache,
          ret |-> ResolveTuple(cache[normalized_name].domain,
                               cache[normalized_name].canonical_firm,
                               RatioToInt(cache[normalized_name].match_score))]
  ELSE IF directory_contains(firm_to_domain, normalized_name)
    THEN [status |-> "ok", path |-> "directory", cache |-> cache,
          ret |-> ResolveTuple(directory_at(firm_to_domain, normalized_name),
                               normalized_name, 100)]
  ELSE LET best_match == findBestFirmMatch(normalized_name, firm_to_domain) IN
    IF ~best_match.found
      THEN [status |-> "crash", path |-> "fuzzy", cache |-> cache,
            ret |-> ResolveTuple(<<>>, <<>>, 0)]
      ELSE [status |-> "ok", path |-> "fuzzy",
            cache |-> cache_insert(cache, normalized_name,
                        [domain |-> best_match.domain,
                         canonical_firm |-> best_match.canonical_firm,
                         match_score |-> best_match.match_score]),
            ret |-> ResolveTuple(best_match.domain, best_match.canonical_firm,
                                 RatioToInt(best_match.match_score))]

\* DomainResolver::resolve_domain run by one caller alone.  status is
\* "crash" when findBestFirmMatch dereferences its null best match
\* (empty directory): the copy of *best_domain reads address 0.
resolve_domain(raw_firm_name, firm_to_domain, cache) ==
  LET normalized_name == normalize_firm_name(raw_firm_name) IN
  IF directory_contains(firm_to_domain, normalized_name)
    THEN [status |-> "ok", path |-> "directory", cache |-> cache,
          ret |-> ResolveTuple(directory_at(firm_to_domain, normalized_name),
                               normalized_name, 100)]
  ELSE IF normalized_name \in DOMAIN cache
    THEN [status |-> "ok", path |-> "cache", cache |-> cache,
          ret |-> ResolveTuple(cache[normalized_name].domain,
                               cache[normalized_name].canonical_firm,
                               RatioToInt(cache[normalized_name].match_score))]
  ELSE LET best_match == findBestFirmMatch(normalized_name, firm_to_domain) IN
    IF ~best_match.found
      THEN [status |-> "crash", path |-> "fuzzy", cache |-> cache,
            ret |-> ResolveTuple(<<>>, <<>>, 0)]
      ELSE [status |-> "ok", path |-> "fuzzy",
            cache |-> cache_insert(cache, normalized_name,
                        [domain |-> best_match.domain,
                         canonical_firm |-> best_match.canonical_firm,
                         match_score |-> best_match.match_score]),
            ret |-> ResolveTuple(best_match.domain, best_match.canonical_firm,
                                 RatioToInt(best_match.match_score))]

----------------------------------------------------------------------------
(* Bounds and input sets *)

\* Largest top_k a caller passes.
MaxTopK == 3
\* Model scores are drawn from 1..MaxScore.
MaxScore == 2
\* Number of caller threads in the concurrent specification.
NumThreads == 2

TopKs == 1..MaxTopK

NameJoLi == <<"J","o"," ","L","i">>
NameAtSign == <<"j","@","o"," ","l","i">>

InvestorNames ==
  { NameJoLi,                                   \* standard
    <<"j","o">>,                                \* one token: no last name
    <<"j","o"," ","d","e"," ","l","i">>,        \* particle: two last names
    <<"j","o","-","a","n"," ","l","i">>,        \* hyphenated first name
    <<"j","uuml"," ","l","i">>,                 \* Germanic letter
    <<"j","o"," ","x"," ","l","i">>,            \* middle name
    NameAtSign }                                \* '@' inside a token

FirmNames == { FirmCvcUpper, FirmCvx, <<"C","v","x">> }

DomainWithAt == <<"a","@","b">>
DomainArgs == { nullopt, Some(DomainCvc), Some(DomainWithAt) }

\* The queries the engine is driven with.
Queries ==
  [investor_name : InvestorNames, firm_name : FirmNames,
   top_k : TopKs, domain : DomainArgs]

\* Firm directories as load_canonical_firm_msgpack can leave them (keys
\* lowercased), in the map's iteration order.
Directories ==
  { <<>>,
    << [firm |-> FirmCvc, domain |-> DomainCvc],
       [firm |-> FirmKkr, domain |-> DomainKkr] >> }

\* Fuzzy caches as load_firm_cache_msgpack can leave them (keys and
\* canonical_firm lowercased, domain and canonical_firm non-empty).
EmptyCache == [k \in {} |-> 0]
InitialCaches ==
  { EmptyCache,
    [k \in {FirmCvc} |->
       [domain |-> DomainOld, canonical_firm |-> FirmKkr, match_score |-> Ratio(50, 1)]],
    [k \in {FirmCvx} |->
       [domain |-> DomainOld, canonical_firm |-> FirmKkr, match_score |-> Ratio(83, 2)]] }

\* Boosted models, as the score each gives to the rows of a matrix: the
\* pair (standard model, complex model) an engine is built with.
ModelPairs ==
  { [std |-> <<1, 1>>, complex |-> <<1, 1, 1>>],
    [std |-> <<1, 2>>, complex |-> <<1, 2, 2>>],
    [std |-> <<2, 1>>, complex |-> <<3, 1, 2>>] }

\* The rows of a candidate-template blob, in any file order.
TemplateBlobs(templates) ==
  { [i \in DOMAIN templates |-> templates[p[i]]] : p \in IndexPermutations(Len(templates)) }

\* A bug: the loader keeps the file order.
load_candidate_templates_unsorted(rows) == { rows }

\* load_candidate_templates: the parsed rows after std::sort by
\* template_id (not stable: every sorted arrangement is an outcome).
load_candidate_templates(rows) ==
  { r \in TemplateBlobs(rows) :
      \A i, j \in DOMAIN r : i < j => ~(r[j].template_id < r[i].template_id) }

----------------------------------------------------------------------------
(* State *)

VARIABLES
  backend,                \* Pred of EmailPredictionEngine<Pred>
  std_predictor_,         \* engine: model of the standard predictor
  complex_predictor_,     \* engine: model of the complex predictor
  std_templates_,         \* engine: standard candidate templates
  complex_templates_,     \* engine: complex candidate templates
  domain_resolver_,       \* engine: TRUE iff the optional resolver is set
  verification_pipeline_, \* engine: TRUE iff a Hunter client is set
  enrichment_pipeline_,   \* engine: TRUE iff a RocketReach client is set
  firm_to_domain_,        \* resolver: firm directory, in iteration order
  firm_cache_,            \* resolver: fuzzy-match cache
  resolved,               \* history: key -> first tuple resolve_domain returned
  call,                   \* the last completed call and what it returned
  pc,                     \* per thread: position inside the function it runs
  frame,                  \* per thread: locals of that function
  accessing,              \* per thread: cache operation in progress
  raced                   \* threads whose cache operation overlapped a write

config_vars == <<backend, std_predictor_, complex_predictor_, std_templates_,
                 complex_templates_, domain_resolver_, verification_pipeline_,
                 enrichment_pipeline_, firm_to_domain_>>
thread_vars == <<pc, frame, accessing, raced>>
vars == <<config_vars, firm_cache_, resolved, call, thread_vars>>

Threads == 1..NumThreads

NoCall == [op |-> "none", outcome |-> "none"]

IdleThreads ==
  /\ pc = [t \in Threads |-> "idle"]
  /\ frame = [t \in Threads |-> <<>>]
  /\ accessing = [t \in Threads |-> "none"]
  /\ raced = {}

----------------------------------------------------------------------------
(* EmailPredictionEngine *)

\* The model call (LGBM_BoosterPredictForMat / CalcModelPredictionFlat):
\* one score per row of the matrix.
model_predict(model, flat_matrix) == [i \in 1..num_rows(flat_matrix) |-> model[i]]

\* NameDecomposer(investor_name) and InvestorFeatureExtractor::extract for
\* the names of InvestorNames, evaluated once.
DecomposedName == [n \in InvestorNames |-> NameDecomposer(n)]
ExtractedFlags == [n \in InvestorNames |-> extract(n)]

\* Scores a verification provider may report.
VerificationScores == {10, 90}

\* JSON bodies a provider may answer with: a value that is not an object,
\* an object with an "errors" member, an object with a score.
JsonBodies ==
  { [is_object |-> FALSE, has_errors |-> FALSE, score |-> 0],
    [is_object |-> TRUE, has_errors |-> TRUE, score |-> 0] } \cup
  { [is_object |-> TRUE, has_errors |-> FALSE, score |-> v] : v \in VerificationScores }

\* What call_api returns: nullopt (no usable response, or a body that is
\* not JSON) or the parsed body.
ApiResponses == {nullopt} \cup { Some(j) : j \in JsonBodies }

\* HunterClient::verify_email, from what call_api returned.  value() on a
\* JSON value that is not an object throws inside the try block.
verify_email(response) ==
  IF ~has_value(response) THEN nullopt
  ELSE LET j == value(response) IN
    IF j.is_object /\ j.has_errors THEN nullopt
    ELSE IF ~j.is_object THEN nullopt
    ELSE Some([score |-> j.score])

\* RocketReachClient::enrich_contact, from what call_api returned: every
\* JSON object is read as a profile, absent members taking defaults.
enrich_contact(full_name, firm, predicted_email, response) ==
  IF ~has_value(response) THEN nullopt
  ELSE LET json == value(response) IN
    IF ~json.is_object THEN nullopt
    ELSE Some([email |-> predicted_email, raw_json |-> json])

\* A bug: the loop ends (break) at the first template that does not render.
RECURSIVE format_results_break(_, _, _, _, _)
format_results_break(top_predictions, templates, name_struct, domain_string, i) ==
  IF i > Len(top_predictions) THEN <<>>
  ELSE LET pred == top_predictions[i]
           local_part == resolve_email_local_part(name_struct,
                           templates[pred.metadata].token_seq)
       IN IF has_value(local_part)
            THEN << [email |-> value(local_part) \o <<"@">> \o domain_string,
                     score |-> pred.score, template_id |-> pred.template_id,
                     verification_result |-> nullopt,
                     enrichment_result |-> nullopt] >>
                 \o format_results_break(top_predictions, templates, name_struct,
                                         domain_string, i + 1)
            ELSE <<>>

\* The loop over top_predictions: a prediction whose template does not
\* render is skipped.
RECURSIVE format_results(_, _, _, _, _)
format_results(top_predictions, templates, name_struct, domain_string, i) ==
  IF i > Len(top_predictions) THEN <<>>
  ELSE LET pred == top_predictions[i]
           tokens == templates[pred.metadata].token_seq
           local_part == resolve_email_local_part(name_struct, tokens)
           rest == format_results(top_predictions, templates, name_struct,
                                  domain_string, i + 1)
       IN IF has_value(local_part)
            THEN << [email |-> value(local_part) \o <<"@">> \o domain_string,
                     score |-> pred.score, template_id |-> pred.template_id,
                     verification_result |-> nullopt,
                     enrichment_result |-> nullopt] >> \o rest
            ELSE rest

\* Index of the row best_result_ptr ends on (0 = nullptr).
RECURSIVE best_result(_, _, _)
best_result(results, i, best) ==
  IF i > Len(results) THEN best
  ELSE IF has_value(results[i].verification_result)
          /\ (best = 0 \/ value(results[i].verification_result).score >
                          value(results[best].verification_result).score)
    THEN best_result(results, i + 1, i)
    ELSE best_result(results, i + 1, best)

complex_name_of(name_struct, flags) ==
  \/ has_middle_name(name_struct)
  \/ has_multiple_first_names(name_struct)
  \/ has_multiple_last_names(name_struct)
  \/ flags.has_german_char
  \/ flags.has_nfkd_normalized

\* Template class handed to build_feature_rows.
builder_class(complex_name) == IF complex_name THEN "complex" ELSE "standard"

\* Predictor object that scores the matrix.
predictor_class(complex_name) == IF complex_name THEN "complex" ELSE "standard"

\* A bug: the predictor is always given the standard templates.
predictor_templates_standard(complex_name) == "standard"

\* Template class handed to predict_top_templates.
predictor_templates_class(complex_name) == IF complex_name THEN "complex" ELSE "standard"

templates_of(class) == IF class = "complex" THEN complex_templates_ ELSE std_templates_
predictor_of(class) == IF class = "complex" THEN complex_predictor_ ELSE std_predictor_

\* Everything of predict after the domain is known.
PredictBody(investor_name, firm_name, top_k, domain, domain_string, steps0, rr) ==
  LET name_struct == DecomposedName[investor_name]
      flags == ExtractedFlags[investor_name]
      complex_name == complex_name_of(name_struct, flags)
      feature_rows == build_feature_rows(name_struct, flags, firm_name,
                        templates_of(builder_class(complex_name)),
                        firm_stats_, firm_usage_map_)
      templates == templates_of(predictor_templates_class(complex_name))
      scores == model_predict(predictor_of(predictor_class(complex_name)), feature_rows)
      base == [op |-> "predict", investor_name |-> investor_name,
               firm_name |-> firm_name, top_k |-> top_k, domain |-> domain,
               domain_string |-> domain_string, resolver_result |-> rr,
               cache_before |-> firm_cache_,
               name_struct |-> name_struct, flags |-> flags,
               builder_class |-> builder_class(complex_name),
               predictor_class |-> predictor_class(complex_name),
               predictor_templates_class |-> predictor_templates_class(complex_name),
               feature_rows |-> feature_rows,
               feature_rows_size |-> Len(feature_rows),
               scores |-> scores]
  IN \E out \in predict_top_templates(backend, feature_rows, templates, top_k, scores) :
       IF out.error # "none"
         THEN call' = base @@ [outcome |-> out.error,
                               steps |-> steps0 \o <<"decompose", "extract", "build", "score">>,
                               top_predictions |-> <<>>,
                               rendered |-> <<>>, formatted |-> <<>>, results |-> <<>>,
                               verify_calls |-> 0, verify_responses |-> <<>>,
                               enrich_calls |-> 0, enrich_row |-> 0,
                               enrich_response |-> nullopt]
         ELSE
           LET top_predictions == out.predictions
               rendered == [i \in DOMAIN top_predictions |->
                              resolve_email_local_part(name_struct,
                                templates[top_predictions[i].metadata].token_seq)]
               results0 == format_results(top_predictions, templates, name_struct,
                                          domain_string, 1)
           IN \E ver \in [DOMAIN results0 ->
                            IF verification_pipeline_ THEN ApiResponses ELSE {nullopt}] :
              LET results1 == [i \in DOMAIN results0 |->
                                 [results0[i] EXCEPT !.verification_result =
                                    IF verification_pipeline_ THEN verify_email(ver[i])
                                    ELSE nullopt]]
                  best == best_result(results1, 1, 0)
                  enrich == enrichment_pipeline_ /\ best # 0
              IN \E enrich_response \in IF enrich THEN ApiResponses ELSE {nullopt} :
                 LET enriched == IF enrich
                                   THEN enrich_contact(investor_name, firm_name,
                                          results1[best].email, enrich_response)
                                   ELSE nullopt
                 IN
                 call' = base @@
                   [outcome |-> "ok",
                    steps |-> steps0 \o <<"decompose", "extract", "build", "score", "render">>
                               \o (IF verification_pipeline_ THEN <<"verify">> ELSE <<>>)
                               \o (IF enrich THEN <<"enrich">> ELSE <<>>),
                    top_predictions |-> top_predictions,
                    rendered |-> rendered,
                    formatted |-> results0,
                    results |-> IF has_value(enriched)
                                  THEN [results1 EXCEPT ![best].enrichment_result = enriched]
                                  ELSE results1,
                    verify_calls |-> IF verification_pipeline_ THEN Len(results0) ELSE 0,
                    verify_responses |-> ver,
                    enrich_calls |-> IF enrich THEN 1 ELSE 0,
                    enrich_row |-> IF enrich THEN best ELSE 0,
                    enrich_response |-> enrich_response]

\* What the history remembers after resolve_domain returned ret for key.
remember(key, ret) ==
  IF key \in DOMAIN resolved THEN resolved
  ELSE [k \in DOMAIN resolved \cup {key} |-> IF k = key THEN ret ELSE resolved[k]]

\* No call is in progress and the process has not crashed.
Alive == call = NoCall

\* A bug: the resolver is asked whenever it exists.
domain_source_resolver_first(domain, has_resolver) ==
  IF has_resolver THEN "resolver"
  ELSE IF has_value(domain) THEN "caller"
  ELSE "missing"

\* Where predict takes the domain from.
domain_source(domain, has_resolver) ==
  IF has_value(domain) THEN "caller"
  ELSE IF has_resolver THEN "resolver"
  ELSE "missing"

\* EmailPredictionEngine::predict
Predict(investor_name, firm_name, top_k, domain) ==
  /\ Alive
  /\ IF domain_source(domain, domain_resolver_) = "caller"
       THEN /\ PredictBody(investor_name, firm_name, top_k, domain,
                           value(domain), <<>>, nullopt)
            /\ UNCHANGED <<firm_cache_, resolved>>
     ELSE IF domain_source(domain, domain_resolver_) = "resolver"
       THEN LET rr == resolve_domain(firm_name, firm_to_domain_, firm_cache_) IN
            IF rr.status = "crash"
              THEN /\ call' = [op |-> "predict", outcome |-> "crash",
                               investor_name |-> investor_name, firm_name |-> firm_name,
                               top_k |-> top_k, domain |-> domain,
                               steps |-> <<"resolve">>, results |-> <<>>,
                               cache_before |-> firm_cache_]
                   /\ UNCHANGED <<firm_cache_, resolved>>
              ELSE /\ PredictBody(investor_name, firm_name, top_k, domain,
                                  rr.ret.domain, <<"resolve">>, Some(rr.ret))
                   /\ firm_cache_' = rr.cache
                   /\ resolved' = remember(normalize_firm_name(firm_name), rr.ret)
       ELSE /\ call' = [op |-> "predict", outcome |-> "missing_domain",
                        investor_name |-> investor_name, firm_name |-> firm_name,
                        top_k |-> top_k, domain |-> domain,
                        steps |-> <<>>, results |-> <<>>,
                        cache_before |-> firm_cache_]
            /\ UNCHANGED <<firm_cache_, resolved>>
  /\ UNCHANGED <<config_vars, thread_vars>>

\* DomainResolver::resolve_domain called directly on the engine's resolver.
ResolveDomain(raw_firm_name) ==
  /\ Alive
  /\ domain_resolver_
  /\ LET rr == resolve_domain(raw_firm_name, firm_to_domain_, firm_cache_)
         key == normalize_firm_name(raw_firm_name)
     IN /\ call' = [op |-> "resolve_domain", outcome |-> rr.status,
                    raw_firm_name |-> raw_firm_name, key |-> key,
                    path |-> rr.path, ret |-> rr.ret,
                    repeated |-> key \in DOMAIN resolved,
                    cache_before |-> firm_cache_]
        /\ firm_cache_' = rr.cache
        /\ resolved' = IF rr.status = "ok" THEN remember(key, rr.ret) ELSE resolved
  /\ UNCHANGED <<config_vars, thread_vars>>

\* Engine construction: the resolver exists iff both optional paths were
\* given; without it the directory and the cache are never loaded.
Init ==
  /\ backend \in {"LightGBM", "CatBoost"}
  /\ \E m \in ModelPairs : std_predictor_ = m.std /\ complex_predictor_ = m.complex
  /\ \E std_rows \in TemplateBlobs(StdTemplates),
        complex_rows \in TemplateBlobs(ComplexTemplates) :
       /\ std_templates_ \in load_candidate_templates(std_rows)
       /\ complex_templates_ \in load_candidate_templates(complex_rows)
  /\ \E canonical_firms_path, firm_cache_path \in BOOLEAN :
       /\ domain_resolver_ = (canonical_firms_path /\ firm_cache_path)
       /\ IF canonical_firms_path /\ firm_cache_path
            THEN firm_to_domain_ \in Directories /\ firm_cache_ \in InitialCaches
            ELSE firm_to_domain_ = <<>> /\ firm_cache_ = EmptyCache
  /\ verification_pipeline_ = FALSE
  /\ enrichment_pipeline_ = FALSE
  /\ resolved = EmptyCache
  /\ call = NoCall
  /\ IdleThreads

PredictCall ==
  \E q \in Queries : Predict(q.investor_name, q.firm_name, q.top_k, q.domain)

ResolveDomainCall == \E raw_firm_name \in FirmNames : ResolveDomain(raw_firm_name)

\* The caller takes the returned value (or catches the exception); a
\* crashed process takes no further step.
Return ==
  /\ call.op # "none"
  /\ call.outcome # "crash"
  /\ call' = NoCall
  /\ UNCHANGED <<config_vars, firm_cache_, resolved, thread_vars>>

Next == PredictCall \/ ResolveDomainCall \/ Return

Spec == Init /\ [][Next]_vars

----------------------------------------------------------------------------
(* The predictors called directly, as the unit tests call them *)

\* Largest number of candidate templates handed to a predictor.
MaxTemplates == 3

\* What a boosted model may answer for n rows.
ModelScores(n) == [1..n -> 1..MaxScore]

\* n candidate templates with distinct ids, sorted by id.
TemplateList(n) ==
  [i \in 1..n |->
     CandidateTemplate(10 * i, <<NameToken("First", 0, FALSE)>>, i, i,
                       FALSE, FALSE, FALSE, FALSE)]

\* A flat matrix of the given size (the models are opaque: only its size
\* is looked at here).
FlatMatrix(size) == [i \in 1..size |-> 0]

\* Sizes that match some template count, and sizes one float too long.
MatrixSizes ==
  { FEATURES_PER_ROW * n : n \in 0..MaxTemplates } \cup
  { FEATURES_PER_ROW * n + 1 : n \in 0..MaxTemplates }

PredictTopTemplates(which, size, n, top_k, scores) ==
  /\ call = NoCall
  /\ \E out \in predict_top_templates(which, FlatMatrix(size), TemplateList(n), top_k, scores) :
       call' = [op |-> "predict_top_templates", outcome |-> out.error,
                backend |-> which, flat_matrix_size |-> size,
                templates |-> TemplateList(n), top_k |-> top_k,
                scores |-> scores, predictions |-> out.predictions]
  /\ UNCHANGED <<config_vars, firm_cache_, resolved, thread_vars>>

LightGBMPredictTop ==
  \E size \in MatrixSizes, n \in 0..MaxTemplates, top_k \in 0..MaxTopK :
    \E scores \in ModelScores(size \div FEATURES_PER_ROW) :
      PredictTopTemplates("LightGBM", size, n, top_k, scores)

CatBoostPredictTop ==
  \E size \in MatrixSizes, n \in 0..MaxTemplates, top_k \in 0..MaxTopK :
    \E scores \in ModelScores(size \div FEATURES_PER_ROW) :
      PredictTopTemplates("CatBoost", size, n, top_k, scores)

\* Two predictor objects and no engine.
InitTopK ==
  /\ backend = "none"
  /\ std_predictor_ = <<>> /\ complex_predictor_ = <<>>
  /\ std_templates_ = <<>> /\ complex_templates_ = <<>>
  /\ domain_resolver_ = FALSE
  /\ verification_pipeline_ = FALSE /\ enrichment_pipeline_ = FALSE
  /\ firm_to_domain_ = <<>> /\ firm_cache_ = EmptyCache
  /\ resolved = EmptyCache
  /\ call = NoCall
  /\ IdleThreads

NextTopK == LightGBMPredictTop \/ CatBoostPredictTop \/ Return

SpecTopK == InitTopK /\ [][NextTopK]_vars

----------------------------------------------------------------------------
(* resolve_domain called from several threads on one resolver *)

FirmKkx == <<"k","k","x">>

\* Names the threads resolve: a directory key and two names that miss.
ConcFirmNames == { FirmCvcUpper, FirmCvx, FirmKkx }

\* resolve_domain takes no lock: each lookup in and each insert into
\* firm_cache_ is a std::unordered_map operation that one thread is inside
\* of for several steps.  An operation that overlaps an insert of another
\* thread is a data race; what it then does is not defined.
Conflicts(t, kind) ==
  { u \in Threads \ {t} :
      accessing[u] # "none" /\ (kind = "write" \/ accessing[u] = "write") }

BeginAccess(t, kind) ==
  /\ accessing' = [accessing EXCEPT ![t] = kind]
  /\ raced' = raced \cup Conflicts(t, kind) \cup
                (IF Conflicts(t, kind) # {} THEN {t} ELSE {})

EndAccess(t) ==
  /\ accessing' = [accessing EXCEPT ![t] = "none"]
  /\ raced' = raced \ {t}

\* The process dies: no thread takes another step.
Crash ==
  /\ pc' = [u \in Threads |-> "crashed"]
  /\ UNCHANGED <<frame, accessing, raced, firm_cache_>>

\* Entry of resolve_domain: normalize_firm_name.
Begin(t, raw_firm_name) ==
  /\ pc[t] = "idle"
  /\ frame' = [frame EXCEPT ![t] =
       <<[raw_firm_name |-> raw_firm_name,
          normalized_name |-> normalize_firm_name(raw_firm_name),
          ret |-> nullopt]>>]
  /\ pc' = [pc EXCEPT ![t] = "check_canonical"]
  /\ UNCHANGED <<accessing, raced, firm_cache_>>

\* firm_to_domain_.contains / .at: the directory is never written.
CheckCanonical(t) ==
  /\ pc[t] = "check_canonical"
  /\ LET key == frame[t][1].normalized_name IN
     IF directory_contains(firm_to_domain_, key)
       THEN /\ frame' = [frame EXCEPT ![t][1].ret =
                 Some(ResolveTuple(directory_at(firm_to_domain_, key), key, 100))]
            /\ pc' = [pc EXCEPT ![t] = "done"]
       ELSE /\ pc' = [pc EXCEPT ![t] = "cache_contains"]
            /\ UNCHANGED frame
  /\ UNCHANGED <<accessing, raced, firm_cache_>>

\* firm_cache_.contains(normalized_name) starts.
CacheContainsBegin(t) ==
  /\ pc[t] = "cache_contains"
  /\ BeginAccess(t, "read")
  /\ pc' = [pc EXCEPT ![t] = "cache_contains_end"]
  /\ UNCHANGED <<frame, firm_cache_>>

\* firm_cache_.contains(normalized_name) returns.
CacheContainsEnd(t) ==
  /\ pc[t] = "cache_contains_end"
  /\ \/ /\ EndAccess(t)
        /\ \E found \in IF t \in raced THEN BOOLEAN
                        ELSE {frame[t][1].normalized_name \in DOMAIN firm_cache_} :
             pc' = [pc EXCEPT ![t] = IF found THEN "cache_at" ELSE "fuzzy"]
        /\ UNCHANGED <<frame, firm_cache_>>
     \/ /\ t \in raced
        /\ Crash

\* The three firm_cache_.at(normalized_name) reads start.
CacheAtBegin(t) ==
  /\ pc[t] = "cache_at"
  /\ BeginAccess(t, "read")
  /\ pc' = [pc EXCEPT ![t] = "cache_at_end"]
  /\ UNCHANGED <<frame, firm_cache_>>

\* The reads return and resolve_domain returns the cached tuple; at()
\* throws std::out_of_range when the key is not there.
CacheAtEnd(t) ==
  /\ pc[t] = "cache_at_end"
  /\ LET key == frame[t][1].normalized_name IN
     \/ /\ key \in DOMAIN firm_cache_
        /\ EndAccess(t)
        /\ frame' = [frame EXCEPT ![t][1].ret =
             Some(ResolveTuple(firm_cache_[key].domain, firm_cache_[key].canonical_firm,
                               RatioToInt(firm_cache_[key].match_score)))]
        /\ pc' = [pc EXCEPT ![t] = "done"]
        /\ UNCHANGED firm_cache_
     \/ /\ key \notin DOMAIN firm_cache_ \/ t \in raced
        /\ Crash

\* findBestFirmMatch over the directory.
FuzzyMatch(t) ==
  /\ pc[t] = "fuzzy"
  /\ LET best_match == findBestFirmMatch(frame[t][1].normalized_name, firm_to_domain_) IN
     IF best_match.found
       THEN /\ frame' = [frame EXCEPT ![t] =
                 <<[frame[t][1] EXCEPT !.ret = nullopt] @@ [best_match |-> best_match]>>]
            /\ pc' = [pc EXCEPT ![t] = "insert"]
            /\ UNCHANGED <<accessing, raced, firm_cache_>>
       ELSE Crash

\* firm_cache_[normalized_name] = {...} starts.
InsertBegin(t) ==
  /\ pc[t] = "insert"
  /\ BeginAccess(t, "write")
  /\ pc' = [pc EXCEPT ![t] = "insert_end"]
  /\ UNCHANGED <<frame, firm_cache_>>

\* The insert completes and resolve_domain returns the match.  An insert
\* that raced may also lose its entry or bring the process down.
InsertEnd(t) ==
  /\ pc[t] = "insert_end"
  /\ LET f == frame[t][1]
         entry == [domain |-> f.best_match.domain,
                   canonical_firm |-> f.best_match.canonical_firm,
                   match_score |-> f.best_match.match_score]
     IN \/ /\ EndAccess(t)
           /\ \/ firm_cache_' = cache_insert(firm_cache_, f.normalized_name, entry)
              \/ t \in raced /\ UNCHANGED firm_cache_
           /\ frame' = [frame EXCEPT ![t][1].ret =
                Some(ResolveTuple(f.best_match.domain, f.best_match.canonical_firm,
                                  RatioToInt(f.best_match.match_score)))]
           /\ pc' = [pc EXCEPT ![t] = "done"]
        \/ /\ t \in raced
           /\ Crash

\* One resolver shared by the threads.
InitConc ==
  /\ backend = "none"
  /\ std_predictor_ = <<>> /\ complex_predictor_ = <<>>
  /\ std_templates_ = <<>> /\ complex_templates_ = <<>>
  /\ domain_resolver_ = TRUE
  /\ verification_pipeline_ = FALSE /\ enrichment_pipeline_ = FALSE
  /\ firm_to_domain_ \in Directories \ {<<>>}
  /\ firm_cache_ \in InitialCaches
  /\ resolved = EmptyCache
  /\ call = NoCall
  /\ IdleThreads

\* What no step of resolve_domain touches.
ResolverFrame == UNCHANGED <<config_vars, resolved, call>>

NextConc ==
  \/ \E t \in Threads, raw_firm_name \in ConcFirmNames :
        Begin(t, raw_firm_name) /\ ResolverFrame
  \/ \E t \in Threads : CheckCanonical(t) /\ ResolverFrame
  \/ \E t \in Threads : CacheContainsBegin(t) /\ ResolverFrame
  \/ \E t \in Threads : CacheContainsEnd(t) /\ ResolverFrame
  \/ \E t \in Threads : CacheAtBegin(t) /\ ResolverFrame
  \/ \E t \in Threads : CacheAtEnd(t) /\ ResolverFrame
  \/ \E t \in Threads : FuzzyMatch(t) /\ ResolverFrame
  \/ \E t \in Threads : InsertBegin(t) /\ ResolverFrame
  \/ \E t \in Threads : InsertEnd(t) /\ ResolverFrame

SpecConc == InitConc /\ [][NextConc]_vars

----------------------------------------------------------------------------
(* predict on an engine built with API keys for the optional hooks *)

\* hunter_api_key / rocket_api_key as the constructor may be given them.
ApiKeys == { nullopt, Some(<<>>), Some(<<"k">>) }

\* A hook is set iff its key is given and not empty.
pipeline_of(api_key) == has_value(api_key) /\ value(api_key) # <<>>

\* Queries with a caller's domain: a name both standard templates render
\* for, a one-token name nothing renders for, and a complex name.
HookQueries ==
  [investor_name : { NameJoLi, <<"j","o">>, <<"j","o"," ","x"," ","l","i">> },
   firm_name : { FirmCvcUpper }, top_k : TopKs, domain : { Some(DomainCvc) }]

\* Engine construction without a resolver, with any pair of API keys.
InitHooks ==
  /\ backend \in {"LightGBM", "CatBoost"}
  /\ std_predictor_ = <<1, 2>> /\ complex_predictor_ = <<1, 2, 2>>
  /\ \E std_rows \in TemplateBlobs(StdTemplates),
        complex_rows \in TemplateBlobs(ComplexTemplates) :
       /\ std_templates_ \in load_candidate_templates(std_rows)
       /\ complex_templates_ \in load_candidate_templates(complex_rows)
  /\ domain_resolver_ = FALSE
  /\ firm_to_domain_ = <<>> /\ firm_cache_ = EmptyCache
  /\ \E hunter_api_key, rocket_api_key \in ApiKeys :
       /\ verification_pipeline_ = pipeline_of(hunter_api_key)
       /\ enrichment_pipeline_ = pipeline_of(rocket_api_key)
  /\ resolved = EmptyCache
  /\ call = NoCall
  /\ IdleThreads

PredictHooksCall ==
  \E q \in HookQueries : Predict(q.investor_name, q.firm_name, q.top_k, q.domain)

NextHooks == PredictHooksCall \/ Return

SpecHooks == InitHooks /\ [][NextHooks]_vars

----------------------------------------------------------------------------
(* third_party::call_api, one libcurl attempt per step *)

\* Largest max_retries a caller passes.
MaxRetries == 7
\* Default of the max_retries parameter.
DEFAULT_MAX_RETRIES == 5
\* Initial value of retry_delay_ms.
INITIAL_RETRY_DELAY_MS == 500
\* The back-off cap.
MAX_RETRY_DELAY_MS == 8000

\* CURLcode values curl_easy_perform may return: success, the five the loop
\* retries on, and one it does not.
CurlCodes ==
  { "CURLE_OK", "CURLE_OPERATION_TIMEDOUT", "CURLE_COULDNT_RESOLVE_HOST",
    "CURLE_COULDNT_CONNECT", "CURLE_RECV_ERROR", "CURLE_SEND_ERROR",
    "CURLE_SSL_CONNECT_ERROR" }

\* CURLINFO_RESPONSE_CODE after an attempt (0: no response code received).
HttpCodes == { 0, 200, 404, 429, 500, 599, 600 }

\* The response body: something nlohmann::json::parse accepts, or not.
Bodies == { "json", "not_json" }

\* What one curl_easy_perform can end with.
AttemptOutcomes == [res : CurlCodes, http_code : HttpCodes, body : Bodies]

retryable_http(http_code) ==
  http_code = 429 \/ (http_code >= 500 /\ http_code < 600)

retryable_curl(res) ==
  res \in { "CURLE_OPERATION_TIMEDOUT", "CURLE_COULDNT_RESOLVE_HOST",
            "CURLE_COULDNT_CONNECT", "CURLE_RECV_ERROR", "CURLE_SEND_ERROR" }

\* A bug: the delay doubles without the cap.
next_retry_delay_uncapped(retry_delay_ms) == retry_delay_ms * 2

\* retry_delay_ms = std::min(retry_delay_ms * 2, 8000)
next_retry_delay(retry_delay_ms) == Min(retry_delay_ms * 2, MAX_RETRY_DELAY_MS)

\* The thread that runs call_api.
ApiThread == 1

\* No attempt made yet.
NoAttempt == [res |-> "none", http_code |-> 0, body |-> "none"]

ApiFrame == frame[ApiThread][1]

ApiGoto(label, f) ==
  /\ pc' = [pc EXCEPT ![ApiThread] = label]
  /\ frame' = [frame EXCEPT ![ApiThread] = <<f>>]
  /\ UNCHANGED <<config_vars, firm_cache_, resolved, call, accessing, raced>>

\* Entry of call_api: curl_easy_init, locals, headers and options.  When
\* curl_easy_init fails the function returns at once.
ApiBegin(max_retries) ==
  /\ pc[ApiThread] = "idle"
  /\ \E curl_ok \in BOOLEAN :
       ApiGoto(IF curl_ok THEN "loop" ELSE "done",
               [fn |-> "call_api", max_retries |-> max_retries, attempt |-> 0,
                retry_delay_ms |-> INITIAL_RETRY_DELAY_MS, performed |-> 0,
                slept |-> <<>>, last |-> NoAttempt, slept_after_last |-> FALSE,
                ret |-> nullopt])

\* The loop test attempt < max_retries; leaving the loop returns nullopt.
ApiLoop ==
  /\ pc[ApiThread] = "loop"
  /\ ApiGoto(IF ApiFrame.attempt < ApiFrame.max_retries THEN "perform" ELSE "done",
             ApiFrame)

\* One attempt: curl_easy_perform, curl_easy_getinfo and what the loop body
\* decides from them.
ApiPerform ==
  /\ pc[ApiThread] = "perform"
  /\ \E out \in AttemptOutcomes :
       LET f == [ApiFrame EXCEPT !.performed = @ + 1, !.last = out,
                                 !.slept_after_last = FALSE]
       IN IF out.res = "CURLE_OK" /\ out.http_code = 200
            THEN ApiGoto("done",
                   [f EXCEPT !.ret = IF out.body = "json"
                                       THEN Some([is_object |-> TRUE, has_errors |-> FALSE,
                                                  score |-> 0])
                                       ELSE nullopt])
          ELSE IF (retryable_http(out.http_code) \/ retryable_curl(out.res))
                  /\ f.attempt + 1 < f.max_retries
            THEN ApiGoto("sleep", f)
          ELSE ApiGoto("done", f)

\* sleep_for(retry_delay_ms), the doubling, `continue` and ++attempt.
ApiSleep ==
  /\ pc[ApiThread] = "sleep"
  /\ ApiGoto("loop",
       [ApiFrame EXCEPT !.slept = Append(@, ApiFrame.retry_delay_ms),
                        !.slept_after_last = TRUE,
                        !.retry_delay_ms = next_retry_delay(@),
                        !.attempt = @ + 1])

\* The caller takes the optional.
ApiReturn ==
  /\ pc[ApiThread] = "done"
  /\ pc' = [pc EXCEPT ![ApiThread] = "idle"]
  /\ frame' = [frame EXCEPT ![ApiThread] = <<>>]
  /\ UNCHANGED <<config_vars, firm_cache_, resolved, call, accessing, raced>>

ApiCall == \E max_retries \in 0..MaxRetries : ApiBegin(max_retries)

NextApi == ApiCall \/ ApiLoop \/ ApiPerform \/ ApiSleep \/ ApiReturn

\* A running call keeps running: every attempt returns (CURLOPT_TIMEOUT)
\* and every sleep ends.
SpecApi ==
  /\ InitTopK
  /\ [][NextApi]_vars
  /\ WF_vars(ApiLoop) /\ WF_vars(ApiPerform) /\ WF_vars(ApiSleep)

----------------------------------------------------------------------------
(* data_loaders::parse_token_sequence *)

\* A default-constructed TemplateToken.
TemplateToken ==
  [group |-> "Unknown", index |-> 0,
   use_original |-> FALSE, use_nfkd |-> FALSE, use_translit |-> FALSE,
   use_nickname |-> FALSE, use_surname_particle |-> FALSE,
   use_initial |-> FALSE, separator |-> nullopt]

DigitSeq == <<"0","1","2","3","4","5","6","7","8","9">>

\* c - '0'
DigitValue(c) == (CHOOSE i \in DOMAIN DigitSeq : DigitSeq[i] = c) - 1

\* index_val = index_val * 10 + (c - '0') over the characters of index_part.
RECURSIVE parse_index(_, _)
parse_index(index_part, index_val) ==
  IF index_part = <<>> THEN index_val
  ELSE parse_index(Tail(index_part), index_val * 10 + DigitValue(Head(index_part)))

\* A bug: one more flag word is accepted.
FlagWordsWithUpper ==
  { <<"o","r","i","g","i","n","a","l">>, <<"n","f","k","d">>, <<"n","i","c","k","n","a","m","e">>, <<"t","r","a","n","s","l","i","t">>, <<"s","u","r","p">>, <<"u","p","p","e","r">> }

\* The flag words the parser accepts.
FlagWords ==
  { <<"o","r","i","g","i","n","a","l">>, <<"n","f","k","d">>, <<"n","i","c","k","n","a","m","e">>, <<"t","r","a","n","s","l","i","t">>, <<"s","u","r","p">> }

\* One iteration of the loop of parse_token_sequence; thrown: the
\* std::runtime_error paths.
parse_token(token) ==
  LET failed == [thrown |-> TRUE, t |-> TemplateToken]
      parts == split_all(token, "_")
  IN
  IF Len(token) = 1 /\ token[1] \in {".", "-", "_"}
    THEN [thrown |-> FALSE, t |-> [TemplateToken EXCEPT !.separator = Some(token)]]
  ELSE IF Len(parts) < 2 THEN failed
  ELSE LET index_part == parts[Len(parts)]
           group_str == parts[1]
           flags == SubSeq(parts, 2, Len(parts) - 1)
           group == CASE group_str \in {<<"f">>, <<"f","i","r","s","t">>}  -> "First"
                      [] group_str \in {<<"m">>, <<"m","i","d","d","l","e">>} -> "Middle"
                      [] group_str \in {<<"l">>, <<"l","a","s","t">>}   -> "Last"
                      [] OTHER -> "Unknown"
       IN
       IF \E i \in DOMAIN index_part : index_part[i] \notin Range(DigitSeq) THEN failed
       ELSE IF group = "Unknown" THEN failed
       ELSE IF \E i \in DOMAIN flags : flags[i] \notin FlagWords THEN failed
       ELSE [thrown |-> FALSE,
             t |-> [TemplateToken EXCEPT
                      !.group = group,
                      !.index = parse_index(index_part, 0),
                      !.use_initial = (Len(group_str) = 1),
                      !.use_original = (\E i \in DOMAIN flags : flags[i] = <<"o","r","i","g","i","n","a","l">>),
                      !.use_nfkd = (\E i \in DOMAIN flags : flags[i] = <<"n","f","k","d">>),
                      !.use_nickname = (\E i \in DOMAIN flags : flags[i] = <<"n","i","c","k","n","a","m","e">>),
                      !.use_translit = (\E i \in DOMAIN flags : flags[i] = <<"t","r","a","n","s","l","i","t">>),
                      !.use_surname_particle = (\E i \in DOMAIN flags : flags[i] = <<"s","u","r","p">>)]]

parse_token_sequence(tokens) ==
  IF \E i \in DOMAIN tokens : parse_token(tokens[i]).thrown
    THEN [error |-> "runtime_error", parsed |-> <<>>]
    ELSE [error |-> "none", parsed |-> [i \in DOMAIN tokens |-> parse_token(tokens[i]).t]]

----------------------------------------------------------------------------
(* The decomposer and the local-part resolver called directly *)

\* Longest name, in words, handed to the decomposer.
MaxWords == 3
\* Longest name, in words, handed to the resolver.
MaxResolveWords == 1
\* Longest token sequence of a template.
MaxTokens == 2

\* Words raw names are made of.
Words ==
  { <<"M","r",".">>, <<"D","r">>, <<"J","r">>, <<"J","o">>, <<"L","i">>, <<"d","e">>, <<"l","a">>, <<"J","o","-","A","n">>, <<"Uuml","m">>, <<"J","o","s","eacute">> }

\* Every name of exactly n words separated by one space.
RECURSIVE NamesOfWords(_)
NamesOfWords(n) ==
  IF n = 0 THEN { <<>> }
  ELSE IF n = 1 THEN Words
  ELSE { w \o <<" ">> \o rest : w \in Words, rest \in NamesOfWords(n - 1) }

NamesUpTo(n) == UNION { NamesOfWords(k) : k \in 0..n }

NameMrDrJohnSmithJr == <<"M","r","."," ","D","r","."," ","J","o","h","n"," ","S","m","i","t","h"," ","J","r">>
NameJoseDeLaCruz == <<"J","o","s","eacute"," ","d","e"," ","l","a"," ","C","r","u","z">>

\* Raw names with whitespace, punctuation and paste noise in them.
OddNames ==
  { <<" ">>, <<"\t">>, <<".">>, <<"-">>, <<"\"">>, <<" "," ","J","o"," "," "," ","L","i"," ">>, <<"J","o"," ","L","i",".">>, <<"J","o","\t","L","i">>,
    <<"M","r","."," ","J","r">>, <<"D","r","."," ","J","o"," ","L","i">>, <<"Uuml","m"," ","L","i">>, <<"J","o"," ","L","i"," ","d","e"," ","J","o">>, <<"J","uuml"," ","L","i">>,
    NameMrDrJohnSmithJr, NameJoseDeLaCruz }

DecomposerNames == NamesUpTo(MaxWords) \cup OddNames

ResolverNames == NamesUpTo(MaxResolveWords) \cup OddNames

\* Template token strings as the metadata file holds them; the last five
\* are malformed.
TokenStrings ==
  { <<"f","_","0">>, <<"f","i","r","s","t","_","o","r","i","g","i","n","a","l","_","0">>, <<"f","i","r","s","t","_","n","f","k","d","_","1">>, <<"m","i","d","d","l","e","_","o","r","i","g","i","n","a","l","_","0">>, <<"l","a","s","t","_","o","r","i","g","i","n","a","l","_","0">>, <<"l","_","1">>, <<".">>, <<"_">>, <<"l","a","s","t","_","o","r","i","g","i","n","a","l","_","1","0">>,
    <<"x","_","0">>, <<"l","a","s","t","_","u","p","p","e","r","_","0">>, <<"f","i","r","s","t">>,
    <<"m","_","x">>, <<"f","i","r","s","t","_","-","1">> }

TokenStringLists == UNION { [1..n -> TokenStrings] : n \in 1..MaxTokens }

\* Token sequences built in code (as the tests build them): a separator
\* that is set together with a group, an index and use_initial.
BuiltTokenLists ==
  { << [TemplateToken EXCEPT !.group = "Last", !.index = 7, !.use_initial = TRUE,
                              !.separator = Some(<<"+">>)] >>,
    << [TemplateToken EXCEPT !.group = "First"],
       [TemplateToken EXCEPT !.group = "Middle", !.index = 1, !.use_original = TRUE,
                              !.separator = Some(<<"X">>)],
       [TemplateToken EXCEPT !.group = "Last", !.use_initial = TRUE] >> }

NamesFrame ==
  UNCHANGED <<config_vars, firm_cache_, resolved, thread_vars>>

\* NameDecomposer decomposer(full_name);
DecomposeCall ==
  /\ Alive
  /\ \E full_name \in DecomposerNames :
       call' = [op |-> "NameDecomposer", outcome |-> "returned",
                full_name |-> full_name,
                cleaned_full_name |-> normalize_full_name(full_name),
                nd |-> NameDecomposer(full_name)]
  /\ NamesFrame

\* InvestorFeatureExtractor::extract(full_name)
ExtractCall ==
  /\ Alive
  /\ \E full_name \in DecomposerNames :
       call' = [op |-> "extract", outcome |-> "returned",
                full_name |-> full_name, flags |-> extract(full_name)]
  /\ NamesFrame

\* parse_token_sequence(tokens): what the loader does with one template.
ParseTokensCall ==
  /\ Alive
  /\ \E tokens \in TokenStringLists :
       call' = [op |-> "parse_token_sequence",
                outcome |-> IF parse_token_sequence(tokens).error = "none"
                              THEN "returned" ELSE "runtime_error",
                tokens |-> tokens,
                parsed |-> parse_token_sequence(tokens).parsed]
  /\ NamesFrame

ResolveRecord(full_name, token_seq, parsed) ==
  [op |-> "resolve_email_local_part", outcome |-> "returned",
   full_name |-> full_name, nd |-> NameDecomposer(full_name),
   token_seq |-> token_seq, parsed |-> parsed,
   local_part |-> resolve_email_local_part(NameDecomposer(full_name), token_seq)]

\* resolve_email_local_part(decomposer, tokens) on a parsed template.
ResolveParsedCall ==
  /\ Alive
  /\ \E full_name \in ResolverNames, tokens \in TokenStringLists :
       /\ parse_token_sequence(tokens).error = "none"
       /\ call' = ResolveRecord(full_name, parse_token_sequence(tokens).parsed, TRUE)
  /\ NamesFrame

\* resolve_email_local_part(decomposer, tokens) on tokens built in code.
ResolveBuiltCall ==
  /\ Alive
  /\ \E full_name \in ResolverNames, token_seq \in BuiltTokenLists :
       call' = ResolveRecord(full_name, token_seq, FALSE)
  /\ NamesFrame

NextNames ==
  DecomposeCall \/ ExtractCall \/ ParseTokensCall \/ ResolveParsedCall \/ ResolveBuiltCall \/ Return

SpecNames == InitTopK /\ [][NextNames]_vars

----------------------------------------------------------------------------
(* data_loaders::load_template_data inside the engine constructor *)

\* Most firms in a firm_template_map file.
MaxFirms == 2

\* The thread that constructs the engine.
CtorThread == 1

\* A candidate-template file: unreadable (missing, empty, not MessagePack),
\* or a list of rows of which row bad_row (0: none) lacks a required field
\* or holds a malformed token.
TemplateFiles(templates) ==
  { [readable |-> FALSE, rows |-> <<>>, bad_row |-> 0] }
  \cup { [readable |-> TRUE, rows |-> r, bad_row |-> b] :
           r \in TemplateBlobs(templates), b \in 0..Len(templates) }

\* The fields of one firm: whether parse_firm_stats finds its six fields,
\* and the template_ids list (absent: <<>>, present: <<ids>>).
FirmFields ==
  [stats_ok : BOOLEAN, template_ids : { nullopt, Some(<<>>), Some(<<1, 1, 2>>) }]

\* std::map keys come out in ascending order.
FirmKeyOrder == <<FirmCvc, FirmCvx, FirmKkr>>

\* A firm_template_map file: unreadable, or the fields of its first n firms.
FirmMapFiles ==
  { [readable |-> FALSE, firms |-> <<>>] }
  \cup { [readable |-> TRUE, firms |-> f] :
           f \in UNION { [1..n -> FirmFields] : n \in 0..MaxFirms } }

\* support_counts of the firm loop: template id -> occurrences.
support_counts(template_ids) ==
  [tid \in Range(template_ids) |->
     Cardinality({ i \in DOMAIN template_ids : template_ids[i] = tid })]

\* The usage_map filled from support_counts.
usage_map(template_ids) ==
  LET counts == support_counts(template_ids)
      max_support == CHOOSE m \in Range(counts) : \A tid \in DOMAIN counts : counts[tid] <= m
  IN [tid \in DOMAIN counts |->
        [support_count |-> counts[tid],
         coverage_pct |-> [num |-> counts[tid], den |-> Len(template_ids)],
         is_top_template |-> counts[tid] = max_support]]

EmptyMap == [k \in {} |-> 0]

\* m[k] = v, creating the entry when absent.
MapPut(m, k, v) == [x \in DOMAIN m \cup {k} |-> IF x = k THEN v ELSE m[x]]

LoadFrame == frame[CtorThread][1]

LoadGoto(label, f) ==
  /\ pc' = [pc EXCEPT ![CtorThread] = label]
  /\ frame' = [frame EXCEPT ![CtorThread] = <<f>>]
  /\ UNCHANGED <<config_vars, firm_cache_, resolved, call, accessing, raced>>

\* A bug-free catch block: all four containers are cleared.
catch_clear_all(f) ==
  [f EXCEPT !.std_out_templates = <<>>, !.complex_out_templates = <<>>,
            !.out_firm_stats_map = EmptyMap,
            !.out_firm_template_usage_map = EmptyMap, !.ret = FALSE]

\* The catch block of load_template_data.
catch_clear(f) ==
  [f EXCEPT !.std_out_templates = <<>>, !.complex_out_templates = <<>>,
            !.out_firm_stats_map = EmptyMap, !.ret = FALSE]

\* The constructor calls load_template_data; the four clear() calls.
LoadBegin ==
  /\ pc[CtorThread] = "idle"
  /\ \E std_file \in TemplateFiles(StdTemplates),
        complex_file \in TemplateFiles(ComplexTemplates),
        firm_file \in FirmMapFiles :
       LoadGoto("load_std",
         [fn |-> "load_template_data",
          std_file |-> std_file, complex_file |-> complex_file, firm_file |-> firm_file,
          std_out_templates |-> <<>>, complex_out_templates |-> <<>>,
          out_firm_stats_map |-> EmptyMap, out_firm_template_usage_map |-> EmptyMap,
          i |-> 1, ret |-> TRUE])

\* load_candidate_templates on one file: rows are appended until one throws;
\* a complete list is sorted by template_id.
LoadedTemplates(file) ==
  IF ~file.readable THEN [thrown |-> TRUE, out |-> { <<>> }]
  ELSE IF file.bad_row # 0
    THEN [thrown |-> TRUE, out |-> { SubSeq(file.rows, 1, file.bad_row - 1) }]
    ELSE [thrown |-> FALSE, out |-> load_candidate_templates(file.rows)]

LoadStd ==
  /\ pc[CtorThread] = "load_std"
  /\ LET r == LoadedTemplates(LoadFrame.std_file) IN
     \E out \in r.out :
       LoadGoto(IF r.thrown THEN "catch" ELSE "load_complex",
                [LoadFrame EXCEPT !.std_out_templates = out])

LoadComplex ==
  /\ pc[CtorThread] = "load_complex"
  /\ LET r == LoadedTemplates(LoadFrame.complex_file) IN
     \E out \in r.out :
       LoadGoto(IF r.thrown THEN "catch" ELSE "load_firm_map",
                [LoadFrame EXCEPT !.complex_out_templates = out])

\* read_binary_file, msgpack::unpack and convert of the firm map.
LoadFirmMap ==
  /\ pc[CtorThread] = "load_firm_map"
  /\ LoadGoto(IF LoadFrame.firm_file.readable THEN "firm_loop" ELSE "catch", LoadFrame)

\* One iteration of the loop over firm_map, or its end and `return true`.
LoadFirm ==
  /\ pc[CtorThread] = "firm_loop"
  /\ LET f == LoadFrame
         firms == f.firm_file.firms
     IN
     IF f.i > Len(firms) THEN LoadGoto("loaded", f)
     ELSE LET firm == FirmKeyOrder[f.i]
              fields == firms[f.i]
              with_stats == [f EXCEPT !.out_firm_stats_map = MapPut(@, firm, firm_stats_[FirmCvc])]
          IN
          IF ~fields.stats_ok THEN LoadGoto("catch", f)
          ELSE IF ~has_value(fields.template_ids) THEN LoadGoto("catch", with_stats)
          ELSE LoadGoto("firm_loop",
                 [with_stats EXCEPT
                    !.out_firm_template_usage_map =
                       MapPut(@, firm,
                              IF value(fields.template_ids) = <<>> THEN EmptyMap
                              ELSE usage_map(value(fields.template_ids))),
                    !.i = @ + 1])

\* catch (const std::exception &): clear and `return false`.
LoadCatch ==
  /\ pc[CtorThread] = "catch"
  /\ LoadGoto("load_failed", catch_clear(LoadFrame))

\* The constructor after load_template_data: throw std::runtime_error on
\* false, go on on true.
CtorAfterLoad ==
  /\ pc[CtorThread] \in {"load_failed", "loaded"}
  /\ pc' = [pc EXCEPT ![CtorThread] = "idle"]
  /\ frame' = [frame EXCEPT ![CtorThread] = <<>>]
  /\ call' = [op |-> "EmailPredictionEngine",
              outcome |-> IF pc[CtorThread] = "loaded" THEN "returned" ELSE "runtime_error"]
  /\ UNCHANGED <<config_vars, firm_cache_, resolved, accessing, raced>>

NextLoad ==
  LoadBegin \/ LoadStd \/ LoadComplex \/ LoadFirmMap \/ LoadFirm \/ LoadCatch
    \/ CtorAfterLoad

SpecLoad == InitTopK /\ [][NextLoad]_vars

----------------------------------------------------------------------------
(* DomainResolver called directly *)

FirmCk == <<"C","k">>

\* Names asked for: a directory key in another case, names close to one
\* key, and a name equally close to two keys.
ResolverFirmNames == { FirmCvcUpper, FirmCvx, FirmKkx, FirmCk }

\* Directories as load_canonical_firm_msgpack can leave them: empty, or
\* the same two firms in either iteration order.
ResolverDirectories ==
  { <<>>,
    << [firm |-> FirmCvc, domain |-> DomainCvc],
       [firm |-> FirmKkr, domain |-> DomainKkr] >>,
    << [firm |-> FirmKkr, domain |-> DomainKkr],
       [firm |-> FirmCvc, domain |-> DomainCvc] >> }

\* DomainResolver(canonical_path, cache_path) with both files loading.
InitResolver ==
  /\ backend = "none"
  /\ std_predictor_ = <<>> /\ complex_predictor_ = <<>>
  /\ std_templates_ = <<>> /\ complex_templates_ = <<>>
  /\ domain_resolver_ = TRUE
  /\ verification_pipeline_ = FALSE /\ enrichment_pipeline_ = FALSE
  /\ firm_to_domain_ \in ResolverDirectories
  /\ firm_cache_ \in InitialCaches
  /\ resolved = EmptyCache
  /\ call = NoCall
  /\ IdleThreads

ResolveFirmCall == \E raw_firm_name \in ResolverFirmNames : ResolveDomain(raw_firm_name)

NextResolver == ResolveFirmCall \/ Return

SpecResolver == InitResolver /\ [][NextResolver]_vars

----------------------------------------------------------------------------
(* Properties of predict_top_templates (SpecTopK) *)

\* A call of predict_top_templates has returned or thrown.
TopKCall == call.op = "predict_top_templates"

\* The matrix has FEATURES_PER_ROW floats per template.
MatchingMatrix == call.flat_matrix_size = Len(call.templates) * FEATURES_PER_ROW

\* Row indices (0-based) of the returned predictions.
ReturnedRows == { call.predictions[i].index : i \in DOMAIN call.predictions }

\* C4: given N templates with distinct ids and a matching matrix, both
\* backends return exactly min(top_k, N) predictions, in non-increasing
\* score order, no template_id and no row index twice, each prediction
\* carrying the score and id of its row, and every row that is not returned
\* scores no more than the lowest returned score.
C4_TopKSorted ==
  (TopKCall /\ MatchingMatrix) =>
    LET preds == call.predictions
        N == Len(call.templates)
    IN /\ call.outcome = "none"
       /\ Len(preds) = Min(call.top_k, N)
       /\ \A i, j \in DOMAIN preds : i < j => preds[i].score >= preds[j].score
       /\ \A i, j \in DOMAIN preds :
            i # j => /\ preds[i].template_id # preds[j].template_id
                     /\ preds[i].index # preds[j].index
       /\ \A i \in DOMAIN preds :
            /\ preds[i].index + 1 \in 1..N
            /\ preds[i].score = call.scores[preds[i].index + 1]
            /\ preds[i].template_id = call.templates[preds[i].index + 1].template_id
       /\ \A r \in 1..N : (r - 1) \notin ReturnedRows =>
            \A i \in DOMAIN preds : call.scores[r] <= preds[i].score

\* A call that had to choose: more templates than top_k, scores that differ,
\* and the best row is not the first one.
C4_Witness ==
  /\ TopKCall /\ MatchingMatrix
  /\ call.outcome = "none"
  /\ Len(call.templates) = MaxTemplates
  /\ call.top_k = 2
  /\ Len(call.predictions) = 2
  /\ call.predictions[1].index = 2
  /\ call.predictions[1].score > call.scores[1]

\* C5: among rows of equal score the lower row index wins: if rows i < j
\* score the same, j is not returned without i and i comes before j.
C5_TiesByAscendingIndex ==
  (TopKCall /\ MatchingMatrix /\ call.outcome = "none") =>
    LET preds == call.predictions IN
    \A j \in DOMAIN preds :
      \A r \in 1..Len(call.scores) :
        (r - 1 < preds[j].index /\ call.scores[r] = preds[j].score) =>
          \E i \in 1..(j - 1) : preds[i].index = r - 1

\* C6: on both backends a matrix whose length is not 27 * len(templates)
\* raises an argument error and yields no predictions, also when exactly one
\* of the two is empty.
C6_SizeMismatchThrows ==
  (TopKCall /\ ~MatchingMatrix) =>
    call.outcome = "invalid_argument" /\ call.predictions = <<>>

----------------------------------------------------------------------------
(* Properties of predict and resolve_domain (Spec) *)

\* predict has returned or thrown (the process is still there).
PredictCalled == call.op = "predict" /\ call.outcome # "crash"

\* predict has returned rows.
PredictReturned == call.op = "predict" /\ call.outcome = "ok"

\* C2: the domain is picked by strict precedence.  A caller's domain is used
\* verbatim and the resolver is not consulted (cache unchanged); else, with a
\* resolver configured, the resolver's domain is used; else predict fails
\* with the missing-domain error before any other step and returns no rows.
C2_DomainPrecedence ==
  PredictCalled =>
    IF has_value(call.domain)
      THEN /\ call.outcome = "ok"
           /\ call.domain_string = value(call.domain)
           /\ \A i \in DOMAIN call.steps : call.steps[i] # "resolve"
           /\ call.resolver_result = nullopt
           /\ firm_cache_ = call.cache_before
    ELSE IF domain_resolver_
      THEN /\ call.outcome = "ok"
           /\ call.steps[1] = "resolve"
           /\ has_value(call.resolver_result)
           /\ call.domain_string = value(call.resolver_result).domain
           /\ value(call.resolver_result) =
                resolve_domain(call.firm_name, firm_to_domain_, call.cache_before).ret
    ELSE /\ call.outcome = "missing_domain"
         /\ call.steps = <<>>
         /\ call.results = <<>>
         /\ firm_cache_ = call.cache_before

\* A caller's domain was used on an engine whose resolver would have
\* answered with another domain.
C2_Witness ==
  /\ PredictReturned
  /\ has_value(call.domain)
  /\ domain_resolver_
  /\ firm_to_domain_ # <<>>
  /\ resolve_domain(call.firm_name, firm_to_domain_, firm_cache_).ret.domain
       # call.domain_string
  /\ call.results # <<>>

\* The branch condition as the claim states it, from the decomposed name
\* and the extracted flags of the call.
ComplexQuery ==
  \/ has_middle_name(call.name_struct)
  \/ has_multiple_first_names(call.name_struct)
  \/ has_multiple_last_names(call.name_struct)
  \/ call.flags.has_german_char
  \/ call.flags.has_nfkd_normalized

\* Template ids of a class.
TemplateIds(class) ==
  { templates_of(class)[i].template_id : i \in DOMAIN templates_of(class) }

\* C3: the complex predictor and the complex templates are used iff the name
\* has a middle name, several first names, several last names, a Germanic
\* letter or NFKD-normalisable text; the builder's template list, the
\* predictor and the predictor's template list are of that one class.
C3_OneClassPerQuery ==
  PredictCalled /\ call.outcome # "missing_domain" =>
    LET class == IF ComplexQuery THEN "complex" ELSE "standard" IN
    /\ call.builder_class = class
    /\ call.predictor_class = class
    /\ call.predictor_templates_class = class
    /\ call.outcome = "ok"
    /\ call.feature_rows_size = FEATURES_PER_ROW * Len(templates_of(class))
    /\ call.scores = predictor_of(class)
    /\ \A i \in DOMAIN call.top_predictions :
         call.top_predictions[i].template_id \in TemplateIds(class)

\* A name that is complex for its Germanic letter alone took the complex
\* path and had all complex templates scored.
C3_Witness ==
  /\ PredictReturned
  /\ call.flags.has_german_char
  /\ ~has_middle_name(call.name_struct)
  /\ ~has_multiple_first_names(call.name_struct)
  /\ ~has_multiple_last_names(call.name_struct)
  /\ call.builder_class = "complex"
  /\ call.predictor_class = "complex"
  /\ call.predictor_templates_class = "complex"
  /\ Len(call.top_predictions) = Len(complex_templates_)

\* Positions of the top predictions whose template rendered, in rank order.
RenderedRanks ==
  LET ranks == [i \in DOMAIN call.top_predictions |-> i]
      Renders(i) == has_value(call.rendered[i])
  IN SelectSeq(ranks, Renders)

\* C7: the result is, in rank order, exactly the top-K predictions whose
\* template renders; one that does not render is dropped without error and
\* without a replacement, so there are at most top_k rows, scores do not
\* increase, and each row has the id and score of its prediction.
C7_RenderedTopK ==
  PredictReturned =>
    LET kept == RenderedRanks IN
    /\ Len(call.top_predictions) = Min(call.top_k,
         Len(templates_of(call.predictor_templates_class)))
    /\ Len(call.results) = Len(kept)
    /\ Len(call.results) <= call.top_k
    /\ \A i \in DOMAIN call.results :
         /\ call.results[i].template_id = call.top_predictions[kept[i]].template_id
         /\ call.results[i].score = call.top_predictions[kept[i]].score
         /\ call.results[i].email =
              value(call.rendered[kept[i]]) \o <<"@">> \o call.domain_string
    /\ \A i, j \in DOMAIN call.results :
         i < j => call.results[i].score >= call.results[j].score

\* A higher-ranked template did not render and a lower-ranked one did.
C7_Witness ==
  /\ PredictReturned
  /\ Len(call.top_predictions) >= 2
  /\ ~has_value(call.rendered[1])
  /\ has_value(call.rendered[2])
  /\ Len(call.results) < Len(call.top_predictions)
  /\ call.results # <<>>

\* Number of '@' in a string.
RECURSIVE CountAt(_)
CountAt(str) ==
  IF str = <<>> THEN 0
  ELSE (IF Head(str) = "@" THEN 1 ELSE 0) + CountAt(Tail(str))

\* C8: every returned email has exactly one '@', the rendered local-part to
\* its left and the domain to its right.
C8_ExactlyOneAt ==
  PredictReturned =>
    \A i \in DOMAIN call.results :
      LET email == call.results[i].email
          local_part == value(call.rendered[RenderedRanks[i]])
      IN /\ CountAt(email) = 1
         /\ email = local_part \o <<"@">> \o call.domain_string

\* resolve_domain has returned.
ResolveReturned == call.op = "resolve_domain" /\ call.outcome = "ok"

\* C9: a firm name whose lowercased form is a directory key resolves to
\* (directory[key], key, 100) whatever the cache holds, and the cache is not
\* modified.
C9_DirectoryHit ==
  LET key == normalize_firm_name(call.raw_firm_name) IN
  (call.op = "resolve_domain" /\ directory_contains(firm_to_domain_, key)) =>
    /\ call.outcome = "ok"
    /\ call.ret = ResolveTuple(directory_at(firm_to_domain_, key), key, 100)
    /\ firm_cache_ = call.cache_before

\* A directory key was resolved while the cache held another record under
\* the same key, from a name that is not the key itself.
C9_Witness ==
  /\ ResolveReturned
  /\ call.path = "directory"
  /\ call.raw_firm_name # call.key
  /\ call.key \in DOMAIN firm_cache_
  /\ firm_cache_[call.key].domain # call.ret.domain

\* C10: once resolve_domain has returned r for a name, every later call for
\* a name with the same lowercase form returns r and leaves the cache as it
\* was, whatever was resolved in between.
C10_Idempotent ==
  (call.op = "resolve_domain" /\ call.repeated) =>
    /\ call.outcome = "ok"
    /\ call.ret = resolved[normalize_firm_name(call.raw_firm_name)]
    /\ firm_cache_ = call.cache_before

\* A name was resolved again, under another spelling, after its first
\* resolution had stored a fuzzy match and another name was resolved in
\* between.
C10_Witness ==
  /\ ResolveReturned
  /\ call.repeated
  /\ call.path = "cache"
  /\ call.raw_firm_name # call.key
  /\ call.ret.domain = DomainCvc
  /\ \E k \in DOMAIN resolved : k # call.key

----------------------------------------------------------------------------
(* Properties of concurrent resolve_domain calls (SpecConc) *)

\* One thread is inside an insert into firm_cache_ while another thread is
\* inside a lookup or an insert.
DataRace ==
  \E t, u \in Threads :
    t # u /\ accessing[t] = "write" /\ accessing[u] # "none"

\* C1: with several threads resolving on one engine, no thread reads or
\* writes the cache while another inserts into it, every call returns the
\* tuple a sequential run returns, and when all calls are done every
\* queried key that went through the fuzzy path has its record in the cache.
C1_CacheAccessSerialised ==
  /\ ~DataRace
  /\ \A t \in Threads : pc[t] # "crashed"
  /\ \A t \in Threads : pc[t] = "done" =>
       /\ has_value(frame[t][1].ret)
       /\ value(frame[t][1].ret) =
            resolve_domain(frame[t][1].raw_firm_name, firm_to_domain_, firm_cache_).ret
  /\ (\A t \in Threads : pc[t] = "done") =>
       \A t \in Threads :
         \/ directory_contains(firm_to_domain_, frame[t][1].normalized_name)
         \/ frame[t][1].normalized_name \in DOMAIN firm_cache_

----------------------------------------------------------------------------
(* Properties of the feature matrix (Spec) *)

\* The template list of a class is in ascending template_id order.
SortedById(templates) ==
  \A i, j \in DOMAIN templates :
    i < j => templates[i].template_id <= templates[j].template_id

\* The matrix build_feature_rows returns for the call's name and firm over
\* the template list the call gave to the builder.
CallFeatureRows ==
  build_feature_rows(call.name_struct, call.flags, call.firm_name,
                     templates_of(call.builder_class), firm_stats_, firm_usage_map_)

\* C11: for each class the loaded templates are in ascending template_id
\* order, build_feature_rows returns 27 floats per template, floats
\* [27*i, 27*i+27) are those of templates[i], and the predictor's size
\* precondition holds inside predict.
C11_RowsFollowTemplates ==
  /\ SortedById(std_templates_)
  /\ SortedById(complex_templates_)
  /\ (PredictCalled /\ call.outcome # "missing_domain") =>
       LET templates == templates_of(call.builder_class)
           rows == CallFeatureRows
       IN /\ Len(rows) = FEATURES_PER_ROW * Len(templates)
          /\ call.feature_rows_size = Len(rows)
          /\ \A i \in DOMAIN templates :
               SubSeq(rows, FEATURES_PER_ROW * (i - 1) + 1, FEATURES_PER_ROW * i) =
                 feature_row(call.name_struct, call.flags, call.firm_name,
                             templates[i], firm_stats_, firm_usage_map_)
          /\ call.feature_rows_size =
               FEATURES_PER_ROW * Len(templates_of(call.predictor_templates_class))
          /\ call.outcome # "invalid_argument"

\* A matrix was built over the complex templates for a firm with usage
\* statistics: its first row is of a template the firm uses and its second
\* row of one it does not.
C11_Witness ==
  /\ PredictReturned
  /\ call.builder_class = "complex"
  /\ call.firm_name \in DOMAIN firm_usage_map_
  /\ Len(CallFeatureRows) = FEATURES_PER_ROW * 3
  /\ CallFeatureRows[1] = 1
  /\ CallFeatureRows[FEATURES_PER_ROW + 1] = 0

----------------------------------------------------------------------------
(* Properties of the optional hooks (SpecHooks) *)

\* A call_api outcome that is a failure: no usable response (which is also
\* what a body that is not JSON gives) or a provider error payload.
FailedResponse(response) ==
  ~has_value(response) \/ value(response).has_errors

\* C12: a failing verification or enrichment call never makes predict fail
\* and never changes the number, order, email, score or template_id of the
\* rows; it only leaves the verification_result / enrichment_result of its
\* row absent.
C12_HookFailureLeavesFieldAbsent ==
  call.op = "predict" =>
    /\ call.outcome = "ok"
    /\ Len(call.results) = Len(call.formatted)
    /\ \A i \in DOMAIN call.results :
         /\ call.results[i].email = call.formatted[i].email
         /\ call.results[i].score = call.formatted[i].score
         /\ call.results[i].template_id = call.formatted[i].template_id
         /\ (call.verify_calls > 0 /\ FailedResponse(call.verify_responses[i])) =>
              call.results[i].verification_result = nullopt
    /\ (call.enrich_calls > 0 /\ FailedResponse(call.enrich_response)) =>
         \A i \in DOMAIN call.results : call.results[i].enrichment_result = nullopt

\* Rows that carry a verification result.
VerifiedRows ==
  { i \in DOMAIN call.results : has_value(call.results[i].verification_result) }

\* The row an enrichment payload belongs on: the highest recorded
\* verification score, the earliest row among equals; with no recorded
\* score every row scores alike and it is the first row.
BestScoringRow ==
  IF VerifiedRows = {} THEN 1
  ELSE CHOOSE i \in VerifiedRows :
         \A j \in VerifiedRows :
           LET si == value(call.results[i].verification_result).score
               sj == value(call.results[j].verification_result).score
           IN si > sj \/ (si = sj /\ i <= j)

\* C13: with enrichment configured and at least one email rendered, predict
\* calls the enrichment hook exactly once, for the single best-scoring row,
\* and at most that row carries an enrichment payload.
C13_EnrichOnceForBest ==
  (PredictReturned /\ enrichment_pipeline_ /\ call.results # <<>>) =>
    /\ call.enrich_calls = 1
    /\ call.enrich_row = BestScoringRow
    /\ \A i \in DOMAIN call.results :
         has_value(call.results[i].enrichment_result) => i = BestScoringRow

----------------------------------------------------------------------------
(* Properties of call_api (SpecApi) *)

\* call_api is somewhere between its entry and its return.
ApiRunning == pc[ApiThread] \in {"loop", "perform", "sleep", "done"}

\* The delay before attempt i + 1 as the schedule states it.
ScheduledDelay(i) ==
  CASE i = 1 -> 500 [] i = 2 -> 1000 [] i = 3 -> 2000 [] i = 4 -> 4000
    [] OTHER -> 8000

\* The outcomes after which a further attempt may be made.
RetryTrigger(out) ==
  \/ out.http_code = 429
  \/ out.http_code \in 500..599
  \/ out.res \in { "CURLE_OPERATION_TIMEDOUT", "CURLE_COULDNT_RESOLVE_HOST",
                   "CURLE_COULDNT_CONNECT", "CURLE_RECV_ERROR", "CURLE_SEND_ERROR" }

\* The state part of C14.
C14_Bounded ==
  ApiRunning =>
    LET f == ApiFrame IN
    /\ f.performed <= f.max_retries
    /\ \A i \in DOMAIN f.slept : f.slept[i] = ScheduledDelay(i)
    /\ pc[ApiThread] = "sleep" => RetryTrigger(f.last) /\ f.performed < f.max_retries
    /\ f.slept_after_last => RetryTrigger(f.last)
    /\ pc[ApiThread] = "done" =>
         /\ ~f.slept_after_last
         /\ Len(f.slept) = (IF f.performed = 0 THEN 0 ELSE f.performed - 1)
         /\ has_value(f.ret) <=>
              (f.last.res = "CURLE_OK" /\ f.last.http_code = 200 /\ f.last.body = "json")
    /\ (f.performed > 0 /\ ~RetryTrigger(f.last) /\ pc[ApiThread] # "perform") =>
         pc[ApiThread] = "done"

\* C14: call_api makes at most max_retries attempts and then terminates; it
\* sleeps only between attempts, 500, 1000, 2000, 4000 ms and never more
\* than 8000 ms, never after the final attempt; it tries again only after
\* HTTP 429, HTTP 5xx or a listed transport error; any other outcome ends
\* the call after that attempt, with an empty result unless the attempt
\* delivered JSON.
C14_BoundedRetry ==
  /\ []C14_Bounded
  /\ (pc[ApiThread] = "loop") ~> (pc[ApiThread] = "done")

\* A call with the default max_retries used every attempt, slept 500, 1000,
\* 2000 and 4000 ms between them and ended empty after the fifth.
C14_Witness ==
  /\ pc[ApiThread] = "done"
  /\ ApiFrame.max_retries = DEFAULT_MAX_RETRIES
  /\ ApiFrame.performed = 5
  /\ ApiFrame.slept = <<500, 1000, 2000, 4000>>
  /\ ApiFrame.last.http_code = 429
  /\ ApiFrame.ret = nullopt

----------------------------------------------------------------------------
(* Properties of the decomposer and the local-part resolver (SpecNames) *)

Decomposed == call.op = "NameDecomposer"

\* first_names, middle_names and last_names of the last decomposition, in order.
Components == call.nd.first_names \o call.nd.middle_names \o call.nd.last_names

\* The honorifics and suffixes written with a trailing period.
DottedTokens == { t \o <<".">> : t \in REMOVABLE_TOKENS }

\* C15: honorifics and suffixes at the front and back of a name are dropped:
\* "Mr. Dr. John Smith Jr" gives first=[john], middle=[], last=[smith], and
\* no decomposition starts with an honorific (with or without its period)
\* or ends with a suffix.
C15_HonorificsDropped ==
  Decomposed =>
    /\ call.full_name = NameMrDrJohnSmithJr =>
         call.nd = [first_names |-> <<<<"j","o","h","n">>>>, middle_names |-> <<>>,
                    last_names |-> <<<<"s","m","i","t","h">>>>]
    /\ Components # <<>> =>
         /\ Head(Components) \notin REMOVABLE_TOKENS \cup DottedTokens
         /\ Components[Len(Components)] \notin REMOVABLE_TOKENS \cup DottedTokens

\* No component of the last decomposition is a particle word.
NoParticleWord == \A i \in DOMAIN Components : Components[i] \notin SURNAME_PARTICLES

\* C16: for an input without a particle word, decomposing the space-joined
\* components of a decomposition gives the same first / middle / last
\* partition again.
C16_IdempotentOnOutput ==
  (Decomposed /\ NoParticleWord) =>
    NameDecomposer(join(Components, " ")) = call.nd

\* The parts after the first one of the cleaned name of the last decomposition.
LaterParts ==
  LET parts == split_all_strings(call.cleaned_full_name, " ")
  IN IF parts = <<>> THEN <<>> ELSE Tail(parts)

ParticleAt == { i \in DOMAIN LaterParts : LaterParts[i] \in SURNAME_PARTICLES }

\* C17: among the tokens after the first, the first particle and every token
\* after it are last_names and the tokens before it middle_names; without a
\* particle the final token is the only last name and the tokens before it
\* are middle_names; "José de la Cruz" gives first=[jose], middle=[],
\* last=[de, la, cruz].
C17_ParticleStartsSurname ==
  Decomposed =>
    /\ IF ParticleAt # {}
         THEN LET k == CHOOSE i \in ParticleAt : \A j \in ParticleAt : i <= j IN
              /\ call.nd.last_names = SubSeq(LaterParts, k, Len(LaterParts))
              /\ call.nd.middle_names = SubSeq(LaterParts, 1, k - 1)
         ELSE IF LaterParts = <<>>
           THEN call.nd.middle_names = <<>> /\ call.nd.last_names = <<>>
           ELSE /\ call.nd.last_names = <<LaterParts[Len(LaterParts)]>>
                /\ call.nd.middle_names = SubSeq(LaterParts, 1, Len(LaterParts) - 1)
    /\ call.full_name = NameJoseDeLaCruz =>
         call.nd = [first_names |-> <<<<"j","o","s","e">>>>, middle_names |-> <<>>,
                    last_names |-> <<<<"d","e">>, <<"l","a">>, <<"c","r","u","z">>>>]

\* A particle after a middle name took itself and the rest as the surname.
C17_Witness ==
  /\ Decomposed
  /\ call.nd.middle_names = <<<<"l","i">>>>
  /\ call.nd.last_names = <<<<"d","e">>, <<"j","o">>>>

\* C18: a non-empty raw name gives at least one non-empty component; all
\* three are empty only for the empty name.
C18_SomeComponent ==
  Decomposed => (Components = <<>> <=> call.full_name = <<>>)

Resolved == call.op = "resolve_email_local_part"

\* names_of(group) for the last resolver call.
names_of(group) ==
  CASE group = "First"  -> call.nd.first_names
    [] group = "Middle" -> call.nd.middle_names
    [] group = "Last"   -> call.nd.last_names

Renderable ==
  \A i \in DOMAIN call.token_seq :
     ~has_value(call.token_seq[i].separator) =>
        call.token_seq[i].index < Len(names_of(call.token_seq[i].group))

Rendering(t) ==
  IF has_value(t.separator) THEN value(t.separator)
  ELSE LET component == to_lower(names_of(t.group)[t.index + 1])
       IN IF t.use_initial THEN <<component[1]>> ELSE component

\* C19: rendering succeeds exactly when every non-separator token has
\* index < len(names_of(group)); the result is then the concatenation, in
\* order, of the separators and the lowercased components (first character
\* only for use_initial), a token with a separator rendering as that
\* separator whatever its other fields; otherwise the result is empty.
C19_RendersIffIndexesFit ==
  Resolved =>
    /\ has_value(call.local_part) <=> Renderable
    /\ Renderable =>
         value(call.local_part) =
           Flatten([i \in DOMAIN call.token_seq |-> Rendering(call.token_seq[i])])

\* A separator set together with a group rendered between a full first
\* name and the initial of the last name.
C19_Witness ==
  /\ Resolved
  /\ ~call.parsed
  /\ call.full_name = <<"Uuml","m"," ","L","i">>
  /\ call.local_part = Some(<<"u","m","X","l">>)

----------------------------------------------------------------------------
(* Properties of load_template_data (SpecLoad) *)

\* load_template_data has returned false.
LoadFailed == pc[CtorThread] = "load_failed"

\* C21: when loading fails anywhere, load_template_data reports failure
\* with all four output containers empty (the constructor then throws).
C21_FailedLoadLeavesNothing ==
  LoadFailed =>
    /\ ~LoadFrame.ret
    /\ LoadFrame.std_out_templates = <<>>
    /\ LoadFrame.complex_out_templates = <<>>
    /\ LoadFrame.out_firm_stats_map = EmptyMap
    /\ LoadFrame.out_firm_template_usage_map = EmptyMap

----------------------------------------------------------------------------
(* Properties of parse_token_sequence (SpecNames) *)

ParsedTokens == call.op = "parse_token_sequence"

\* The segments of a token string between underscores.
Segments(token) == split_all(token, "_")

IsSeparator(token) == token \in { <<".">>, <<"_">>, <<"-">> }

GroupOf(segment) ==
  CASE segment \in { <<"f">>, <<"f","i","r","s","t">> }  -> "First"
    [] segment \in { <<"m">>, <<"m","i","d","d","l","e">> } -> "Middle"
    [] segment \in { <<"l">>, <<"l","a","s","t">> }   -> "Last"
    [] OTHER -> "invalid"

KnownFlags == { <<"o","r","i","g","i","n","a","l">>, <<"n","f","k","d">>, <<"n","i","c","k","n","a","m","e">>, <<"t","r","a","n","s","l","i","t">>, <<"s","u","r","p">> }

IsDecimal(segment) ==
  segment # <<>> /\ \A i \in DOMAIN segment : segment[i] \in Range(DigitSeq)

RECURSIVE Pow10(_)
Pow10(n) == IF n = 0 THEN 1 ELSE 10 * Pow10(n - 1)

RECURSIVE DecimalValue(_)
DecimalValue(segment) ==
  IF segment = <<>> THEN 0
  ELSE DigitValue(Head(segment)) * Pow10(Len(segment) - 1) + DecimalValue(Tail(segment))

\* A well-formed token string: a separator, or group, known flags, index.
WellFormed(token) ==
  \/ IsSeparator(token)
  \/ LET seg == Segments(token) IN
     /\ Len(seg) >= 2
     /\ GroupOf(seg[1]) # "invalid"
     /\ IsDecimal(seg[Len(seg)])
     /\ \A i \in 2..(Len(seg) - 1) : seg[i] \in KnownFlags

\* The TemplateToken a well-formed token string stands for.
Denotes(t, token) ==
  IF IsSeparator(token)
    THEN t.separator = Some(token) /\ t.group = "Unknown"
    ELSE LET seg == Segments(token) IN
         /\ t.separator = nullopt
         /\ t.group = GroupOf(seg[1])
         /\ t.index = DecimalValue(seg[Len(seg)])
         /\ t.use_initial <=> Len(seg[1]) = 1
         /\ t.use_original <=> \E i \in 2..(Len(seg) - 1) : seg[i] = <<"o","r","i","g","i","n","a","l">>
         /\ t.use_nfkd <=> \E i \in 2..(Len(seg) - 1) : seg[i] = <<"n","f","k","d">>

\* C22: parse_token_sequence fails, returning no token, whenever a token
\* string that is not a separator has an invalid group, an unknown flag, no
\* index segment or a final segment that is not a non-negative decimal
\* integer; otherwise it returns one TemplateToken per string, in order.
C22_ParsesOrFails ==
  ParsedTokens =>
    IF \A i \in DOMAIN call.tokens : WellFormed(call.tokens[i])
      THEN /\ call.outcome = "returned"
           /\ Len(call.parsed) = Len(call.tokens)
           /\ \A i \in DOMAIN call.tokens : Denotes(call.parsed[i], call.tokens[i])
      ELSE call.outcome = "runtime_error" /\ call.parsed = <<>>

\* A well-formed token before a token with an unknown flag: nothing returned.
C22_Witness ==
  /\ ParsedTokens
  /\ call.tokens = << <<"f","_","0">>, <<"l","a","s","t","_","u","p","p","e","r","_","0">> >>
  /\ call.outcome = "runtime_error"
  /\ call.parsed = <<>>

----------------------------------------------------------------------------
(* Properties of resolve_domain called directly (SpecResolver) *)

FuzzyReturned == ResolveReturned /\ call.path = "fuzzy"

\* A cache entry read the way a cache hit returns it.
AsTuple(entry) ==
  ResolveTuple(entry.domain, entry.canonical_firm, RatioToInt(entry.match_score))

\* What a returned call did to the cache.
C23_CallEffect ==
  ResolveReturned =>
    /\ call.path \in {"directory", "cache"} => firm_cache_ = call.cache_before
    /\ call.path = "fuzzy" =>
         /\ call.key = normalize_firm_name(call.raw_firm_name)
         /\ call.key \notin DOMAIN call.cache_before
         /\ DOMAIN firm_cache_ = DOMAIN call.cache_before \cup {call.key}
         /\ AsTuple(firm_cache_[call.key]) = call.ret
         /\ firm_cache_[call.key] =
              LET again == findBestFirmMatch(call.key, firm_to_domain_)
              IN [domain |-> again.domain, canonical_firm |-> again.canonical_firm,
                  match_score |-> again.match_score]

\* No step removes or changes a cache entry or touches the directory.
C23_StepEffect ==
  /\ firm_to_domain_' = firm_to_domain_
  /\ \A k \in DOMAIN firm_cache_ :
        k \in DOMAIN firm_cache_' /\ firm_cache_'[k] = firm_cache_[k]

\* C23: resolve_domain writes the cache only in the fuzzy step: a directory
\* or cache hit leaves it unchanged, a miss adds exactly one entry, under
\* the lowercased query, equal to the returned tuple and to what a repeated
\* write would store; no entry is overwritten or removed and the directory
\* is never modified.
C23_CacheWrittenOnlyOnMiss ==
  /\ []C23_CallEffect
  /\ [][C23_StepEffect]_vars

\* A miss added its entry to a cache that already held another one.
C23_Witness ==
  /\ FuzzyReturned
  /\ call.cache_before # EmptyCache
  /\ Cardinality(DOMAIN firm_cache_) = Cardinality(DOMAIN call.cache_before) + 1
  /\ call.ret.score = 66

\* The directory positions whose key is most similar to the query.
BestPositions ==
  { i \in DOMAIN firm_to_domain_ :
      \A j \in DOMAIN firm_to_domain_ :
         RatioGeq(similarity(call.key, firm_to_domain_[i].firm),
                  similarity(call.key, firm_to_domain_[j].firm)) }

\* C24: a name in neither the directory nor the cache resolves to the
\* directory key most similar to the lowercased query and that key's
\* domain; of several most similar keys, the one visited last.
C24_FuzzyArgmaxLastWins ==
  FuzzyReturned =>
    LET last == CHOOSE i \in BestPositions : \A j \in BestPositions : j <= i IN
    /\ call.ret.matched_firm = firm_to_domain_[last].firm
    /\ call.ret.domain = firm_to_domain_[last].domain
    /\ call.ret.score =
         RatioToInt(similarity(call.key, firm_to_domain_[last].firm))

\* Two keys were equally similar and the later one was returned.
C24_Witness ==
  /\ FuzzyReturned
  /\ Cardinality(BestPositions) = 2
  /\ call.ret.matched_firm = firm_to_domain_[2].firm
  /\ call.ret.score = 40

\* C29: for every constructed resolver, the one with an empty directory
\* included, resolve_domain returns normally, and a fuzzy match returns a
\* directory key and the domain stored under it.
C29_ResolveNeverCrashes ==
  call.op = "resolve_domain" =>
    /\ call.outcome = "ok"
    /\ call.path = "fuzzy" =>
         /\ directory_contains(firm_to_domain_, call.ret.matched_firm)
         /\ call.ret.domain = directory_at(firm_to_domain_, call.ret.matched_firm)

----------------------------------------------------------------------------
(* Properties of name cleaning and the feature flags (SpecNames) *)

\* C25: every run of whitespace between words is collapsed to one space
\* before tokenising, so no decomposed component contains a whitespace
\* character.
C25_NoWhitespaceInComponents ==
  Decomposed =>
    \A i \in DOMAIN Components :
       \A j \in DOMAIN Components[i] : Components[i][j] \notin WHITESPACE

Extracted == call.op = "extract"

\* The raw name with its ASCII letters in lower case.
AsciiLowered == [i \in DOMAIN call.full_name |-> tolower(call.full_name[i])]

PureAscii ==
  \A i \in DOMAIN call.full_name : call.full_name[i] \notin NonAsciiChars

FoldChar(c) == IF c = "Uuml" THEN "uuml" ELSE tolower(c)

FoldCase(name) == [i \in DOMAIN name |-> FoldChar(name[i])]

\* C30: two raw names that differ only in letter case, non-ASCII letters
\* included, decompose to the same first_names, middle_names and last_names.
C30_CaseInsensitive ==
  Decomposed => NameDecomposer(FoldCase(call.full_name)) = call.nd

----------------------------------------------------------------------------
(* The firm name behind the firm-level feature columns *)

ResolvedThroughResolver ==
  /\ call.op = "predict"
  /\ call.outcome = "ok"
  /\ has_value(call.resolver_result)

\* C27: when predict resolves the query firm through the domain resolver to
\* directory key k, the feature matrix handed to the predictor is the one
\* build_feature_rows gives for k: its firm-level columns are those of k.
C27_FeatureRowsUseMatchedFirm ==
  ResolvedThroughResolver =>
    call.feature_rows =
      build_feature_rows(call.name_struct, call.flags,
                         value(call.resolver_result).matched_firm,
                         templates_of(call.builder_class),
                         firm_stats_, firm_usage_map_)

----------------------------------------------------------------------------
(* string_normalization::StringViewSplitter driven through next() *)

MaxSplitLen == 6
SplitChars == {"a", "b", "_"}
SplitDelimiters == {"_", "b"}
SplitStrings == UNION { [1..n -> SplitChars] : n \in 0..MaxSplitLen }

SplitThread == 1

\* std::string_view::npos, as the value find returns for "not found".
npos == -1

\* str.find(delimiter, start): offsets are 0-based as in the code.
find(str, delimiter, start) ==
  LET hits == { e \in 0..(Len(str) - 1) : e >= start /\ str[e + 1] = delimiter }
  IN IF hits = {} THEN npos
     ELSE CHOOSE e \in hits : \A h \in hits : e <= h

\* str.substr(start, count)
substr(str, start, count) == SubSeq(str, start + 1, start + count)

\* A bug: an empty segment between two delimiters is returned as well.
segment_any(start, end) == end >= start

\* The test on a segment that ends at a delimiter.
segment_nonempty(start, end) == end > start

\* StringViewSplitter::next from offset pos: what it returns and the new pos_.
RECURSIVE next(_, _, _)
next(str_, delimiter_, pos_) ==
  IF pos_ > Len(str_) THEN [ret |-> nullopt, pos_ |-> pos_]
  ELSE LET start == pos_
           end == find(str_, delimiter_, start) IN
    IF end = npos
      THEN [ret |-> IF start < Len(str_)
                      /\ substr(str_, start, Len(str_) - start) # <<>>
                      THEN Some(substr(str_, start, Len(str_) - start))
                      ELSE nullopt,
            pos_ |-> Len(str_) + 1]
    ELSE IF segment_nonempty(start, end)
      THEN [ret |-> Some(substr(str_, start, end - start)), pos_ |-> end + 1]
      ELSE next(str_, delimiter_, end + 1)

Splitter == frame[SplitThread][1]

\* StringViewSplitter(str, delimiter)
SplitterConstruct ==
  /\ pc[SplitThread] = "idle"
  /\ \E str \in SplitStrings, delimiter \in SplitDelimiters :
       frame' = [frame EXCEPT ![SplitThread] =
                   << [fn |-> "StringViewSplitter", str_ |-> str,
                       delimiter_ |-> delimiter, pos_ |-> 0,
                       returned |-> <<>>, empties |-> 0] >>]
  /\ pc' = [pc EXCEPT ![SplitThread] = "splitter"]
  /\ UNCHANGED <<config_vars, firm_cache_, resolved, call, accessing, raced>>

\* One call of next() by the owner of the splitter; the caller stops asking
\* after the third empty answer.
SplitterNext ==
  /\ pc[SplitThread] = "splitter"
  /\ Splitter.empties < 3
  /\ LET r == next(Splitter.str_, Splitter.delimiter_, Splitter.pos_) IN
     frame' = [frame EXCEPT ![SplitThread] =
                 << [Splitter EXCEPT
                       !.pos_ = r.pos_,
                       !.returned = IF has_value(r.ret) THEN Append(@, value(r.ret)) ELSE @,
                       !.empties = IF has_value(r.ret) THEN @ ELSE @ + 1] >>]
  /\ UNCHANGED <<config_vars, firm_cache_, resolved, call, pc, accessing, raced>>

\* The splitter goes out of scope.
SplitterDestroy ==
  /\ pc[SplitThread] = "splitter"
  /\ pc' = [pc EXCEPT ![SplitThread] = "idle"]
  /\ frame' = [frame EXCEPT ![SplitThread] = <<>>]
  /\ UNCHANGED <<config_vars, firm_cache_, resolved, call, accessing, raced>>

NextSplit == SplitterConstruct \/ SplitterNext \/ SplitterDestroy

SpecSplit == InitTopK /\ [][NextSplit]_vars

Splitting == pc[SplitThread] = "splitter"

\* The maximal delimiter-free substrings of str, as pairs of 1-based
\* first and last positions.
MaximalRuns(str, delimiter) ==
  { <<i, j>> \in (1..Len(str)) \X (1..Len(str)) :
      /\ i <= j
      /\ \A k \in i..j : str[k] # delimiter
      /\ i = 1 \/ str[i - 1] = delimiter
      /\ j = Len(str) \/ str[j + 1] = delimiter }

\* segs is exactly the maximal delimiter-free substrings of str, in order.
IsSplitOf(segs, str, delimiter) ==
  /\ Len(segs) = Cardinality(MaximalRuns(str, delimiter))
  /\ \E starts \in [DOMAIN segs -> 1..Len(str)] :
       /\ \A n \in DOMAIN segs :
            /\ <<starts[n], starts[n] + Len(segs[n]) - 1>> \in MaximalRuns(str, delimiter)
            /\ segs[n] = SubSeq(str, starts[n], starts[n] + Len(segs[n]) - 1)
       /\ \A m, n \in DOMAIN segs : m < n => starts[m] < starts[n]

C28_State ==
  Splitting =>
    LET all == split_all(Splitter.str_, Splitter.delimiter_) IN
    /\ split_all_strings(Splitter.str_, Splitter.delimiter_) = all
    /\ IsSplitOf(all, Splitter.str_, Splitter.delimiter_)
    /\ \A n \in DOMAIN all : all[n] # <<>>
    /\ Len(Splitter.returned) <= Len(all)
    /\ Splitter.returned = SubSeq(all, 1, Len(Splitter.returned))
    /\ Splitter.empties > 0 => Splitter.returned = all

C28_Step ==
  (Splitting /\ Splitter.empties > 0 /\ pc'[SplitThread] = "splitter")
    => /\ frame'[SplitThread][1].returned = Splitter.returned
       /\ frame'[SplitThread][1].empties = Splitter.empties + 1

\* C28: for any string and delimiter, the values next() returns until its
\* first empty answer are exactly the sequence split_all() and
\* split_all_strings() return, which is the maximal delimiter-free
\* substrings in order, none of them empty; after the first empty answer
\* every later call of next() is empty too.
C28_NextAgreesWithSplitAll == []C28_State /\ [][C28_Step]_vars

\* "_a__b_" split on '_': a leading, a doubled and a trailing delimiter;
\* next() gave "a", "b", then an empty answer twice.
C28_Witness ==
  /\ Splitting
  /\ Splitter.str_ = <<"_","a","_","_","b","_">>
  /\ Splitter.delimiter_ = "_"
  /\ Splitter.returned = << <<"a">>, <<"b">> >>
  /\ Splitter.empties = 2

====
